---- MODULE Spec2Model ----
(***************************************************************************)
(* unilog: the ingestion / shutdown state machine.                         *)
(*                                                                         *)
(*   raw bytes -> Reader (shutdown aware) -> bufio -> readlines goroutine  *)
(*             -> linec / errc -> Unilog.tick                              *)
(*                                                                         *)
(* Three specifications share the definitions below:                       *)
(*   SpecReader  a caller issuing Read calls directly on the reader        *)
(*   SpecPipe    readlines with a `for line := range lc` consumer          *)
(*   Spec        the daemon: readlines consumed by Unilog.tick, signals    *)
(***************************************************************************)
EXTENDS Integers, Sequences, FiniteSets, TLC

\* ------------------------------------------------------------- bounds
MaxInput == 4        \* longest input stream, in bytes
MaxBuf == 3          \* largest buffer a direct caller hands to Read
MaxCalls == 7        \* Read calls a direct caller makes
BufSize == 3         \* size of the bufio.Reader's buffer, in bytes
MaxQueue == 2        \* largest BufferLines (capacity of the line queue)
MaxLoopInput == 2    \* longest input stream fed to the daemon
MaxTerm == 2         \* terminate signals delivered to the daemon
MaxQuit == 2         \* force-quit signals delivered to the daemon
MaxReopen == 1       \* rotate signals delivered to the daemon
MaxTime == 2         \* last instant of the clock
Hour == 1            \* time.Hour, in steps of the clock
MaxRecords == 3      \* records on stdin while the output side is watched
AusterityBuffer == 2 \* capacity of SystemAusterityLevel (100 in clevels)
MaxLoads == 2        \* ticks of the austerity loader
MaxReads == 4        \* reads of the austerity level
MaxLine == 2         \* longest line of text, in characters
MaxFilters == 2      \* longest list of filters
MaxTokens == 2       \* longest text line, in tokens

\* `make(chan os.Signal, 2)`
SigCap == 2

\* ------------------------------------------------------------- bytes
NL == "NL"                         \* the byte '\n'
Bytes == {"a", "b", NL}

SeqsUpTo(S, n) == UNION {[1..k -> S] : k \in 0..n}

\* "a\nb\nc", the drain scenario of the documentation
Scenario == <<"a", NL, "b", NL, "c">>

Inputs == SeqsUpTo(Bytes, MaxInput) \cup {Scenario}

Min(x, y) == IF x < y THEN x ELSE y

LastIsNL(s) == Len(s) > 0 /\ s[Len(s)] = NL

VARIABLES
  \* the inner io.Reader: the whole stream, what it reports once the
  \* stream is exhausted, and how many bytes it has handed out
  impl, input, tail, pos,
  \* Reader / UnilogReader fields
  nl, shuttingDown,
  \* the Read call in flight: position, caller's len(buf), and the
  \* values of shuttingDown and nl when the call began
  rpc, rlen, rsd, rnl,
  \* observation of Read: the last completed call, every byte returned
  \* so far, whether the reader ever reported its own EOF, calls begun,
  \* and len(out) when the first call that saw shuttingDown began (-1: none)
  res, out, wrapperEOF, calls, sdOut,
  \* the shutdown channel and the goroutine started by NewReader
  shutdownClosed, lpc, handoffs,
  \* readlines: capacity of linec, the bufio.Reader (unread bytes, pending
  \* error), the fragments ReadString has collected, the goroutine's
  \* position with its locals s and err, and the two channels
  bufsize, bbuf, berr, acc, ppc, ps, perr, linec, linecClosed, errc,
  \* the consumer of linec: the records it received, in order
  received,
  \* Unilog: the event loop, the signal channels, the two-phase exit
  loop, sigTerm, sigQuit, sigReopen, shouldShutdown, exitCode,
  \* signals delivered so far and terminate signals tick has processed
  termSent, quitSent, reopenSent, termsDone,
  \* the output side of Unilog: the target path, the handle u.file, and the
  \* configuration that handleError looks at (SentryDSN set, MailFrom and
  \* MailTo set, Stats set)
  target, file, sentry, mail, stats,
  \* u.b: the failure episode
  broken, at, count,
  \* the environment: whether OpenFile / WriteString can fail, the clock,
  \* how many handles OpenFile has returned and which of them are closed
  disk, now, opened, closed,
  \* u.jsonEncoder: the handle the encoder writes to, NilFile while nil
  jsonEncoder,
  \* observation: what reopen, logLine and handleError did, in order, kept
  \* while the output side is being observed
  observed, events,
  \* clevels: the austerity file, currentLevel of SendSystemAusterityLevel,
  \* its loader goroutine and the channel SystemAusterityLevel
  levelFile, currentLevel, loader, levelCh,
  \* observation: the loads made, the levels applied to the cache and the
  \* values read from the channel, in order
  loads, applied, reads,
  \* the record handed to AusterityFilter, and the observation of the last
  \* application: the record, the criticality found, the austerity level
  \* received, the random draw, the decision and the filter's output
  fin, fres,
  \* u.JSON, u.Filters, and the observation of the last record logged: the
  \* line, the path it took, what was handed to the file and the outcome
  JSON, Filters, logged,
  \* tagState: whether it is nil, its Tags, its metricsTable, the holder of
  \* its lock (0: nobody), and the GetTags calls in flight, one per
  \* goroutine
  tagsNil, Tags, metricsTable, tagLock, getters,
  \* observation: how often `it.metricsTable[metricName] = tags` ran for each
  \* name, the (name, expansion) pairs returned, the calls begun
  inserted, returned, gets,
  \* Reader.mtx (its holder), the goroutines that are in the middle of a
  \* load or store of shuttingDown, and which of the flag checks of Read the
  \* reader is at
  mtx, touching, rchk

readerVars == <<impl, input, tail, pos, nl, shuttingDown, rpc, rlen, rsd, rnl,
                res, out, wrapperEOF, calls, sdOut>>
listenerVars == <<shutdownClosed, lpc, handoffs>>

pipeVars == <<bufsize, bbuf, berr, acc, ppc, ps, perr, linec, linecClosed, errc>>
loopVars == <<loop, sigTerm, sigQuit, sigReopen, shouldShutdown, exitCode,
              termSent, quitSent, reopenSent, termsDone>>

outVars == <<target, file, sentry, mail, stats, broken, at, count,
             disk, now, opened, closed, jsonEncoder, observed, events>>

levelVars == <<levelFile, currentLevel, loader, levelCh, loads, applied, reads>>

filterVars == <<fin, fres>>

formatVars == <<JSON, Filters, logged>>

tagVars == <<tagsNil, Tags, metricsTable, tagLock, getters, inserted, returned, gets>>

lockVars == <<mtx, touching, rchk>>

vars == <<readerVars, listenerVars, pipeVars, received, loopVars, outVars,
          levelVars, filterVars, formatVars, tagVars, lockVars>>

NoRes == [by |-> "none", n |-> 0, err |-> "nil", data |-> <<>>,
          blen |-> 0, ilen |-> 0, inner |-> <<0, "nil">>,
          sd |-> FALSE, nl0 |-> FALSE, rep |-> FALSE]

\* ------------------------------------------------------------- inner stream
\* inner.Read(buf) with len(buf) = k: some non-empty prefix of what is left
\* (an io.Reader may return fewer bytes than asked for), or, once the
\* stream is exhausted, (0, tail) where tail is io.EOF or another error.
InnerRead(k) ==
  IF pos < Len(input)
  THEN {[n |-> m, err |-> "nil", data |-> SubSeq(input, pos + 1, pos + m)] :
          m \in 1..Min(k, Len(input) - pos)}
  ELSE {[n |-> 0, err |-> tail, data |-> <<>>]}

\* ------------------------------------------------------------- Reader.Read
\* `if r.nl && r.isShuttingDown() { return 0, io.EOF }`
WrapperEOF_nlIgnored(n, s) == s
WrapperEOF(n, s) == n /\ s

\* `return 0, io.EOF` leaves r.nl as it is
NlAfterEOF_reset(n) == FALSE
NlAfterEOF(n) == n

\* the slice handed to inner.Read: UnilogReader cuts it to one byte when
\* shuttingDown (`buf = buf[:1]`), Reader hands the caller's buffer on
InnerLen_alwaysOne(i, k, s) == 1
InnerLen(i, k, s) == IF i = "UnilogReader" /\ s THEN 1 ELSE k

\* `if n > 0 { r.nl = buf[n-1] == '\n' }`
NextNl_firstByte(old, n, data) == IF n > 0 THEN data[1] = NL ELSE old
NextNl(old, n, data) == IF n > 0 THEN data[n] = NL ELSE old

\* `return n, e`
ReadResult_errDropped(n, e) == <<n, "nil">>
ReadResult(n, e) == <<n, e>>

\* Read, up to the call of inner.Read: the check of nl and shuttingDown
\* (UnilogReader reads the flag unguarded, Reader under r.mtx; either way
\* the check sees the value before or after the listener's write).
ReadBegin(k) ==
  /\ rpc = "idle"
  /\ calls' = calls + 1
  /\ sdOut' = IF sdOut < 0 /\ shuttingDown THEN Len(out) ELSE sdOut
  /\ IF WrapperEOF(nl, shuttingDown)
     THEN /\ res' = [by |-> "wrapper", n |-> 0, err |-> "EOF", data |-> <<>>,
                     blen |-> k, ilen |-> 0, inner |-> <<0, "nil">>,
                     sd |-> shuttingDown, nl0 |-> nl, rep |-> wrapperEOF]
          /\ wrapperEOF' = TRUE
          /\ nl' = NlAfterEOF(nl)
          /\ UNCHANGED <<rpc, rlen, rsd, rnl>>
     ELSE /\ rpc' = "inner"
          /\ rlen' = k
          /\ rsd' = shuttingDown
          /\ rnl' = nl
          /\ UNCHANGED <<res, wrapperEOF, nl>>
  /\ UNCHANGED <<impl, input, tail, pos, shuttingDown, out>>

\* Read, from the call of inner.Read to the return
ReadInner ==
  /\ rpc = "inner"
  /\ LET m == InnerLen(impl, rlen, shuttingDown) IN
     \E r \in InnerRead(m) :
       /\ pos' = pos + r.n
       /\ nl' = NextNl(nl, r.n, r.data)
       /\ out' = out \o r.data
       /\ res' = [by |-> "inner",
                  n |-> ReadResult(r.n, r.err)[1],
                  err |-> ReadResult(r.n, r.err)[2],
                  data |-> r.data, blen |-> rlen, ilen |-> m,
                  inner |-> <<r.n, r.err>>,
                  sd |-> rsd, nl0 |-> rnl, rep |-> wrapperEOF]
  /\ rpc' = "idle"
  /\ UNCHANGED <<impl, input, tail, shuttingDown, rlen, rsd, rnl,
                 wrapperEOF, calls, sdOut>>

\* ------------------------------------------------------------- NewReader
\* the goroutine `go func() { <-shutdown; r.shuttingDown = true }()`
\* lpc: "start" created, "recv" blocked in <-shutdown, "got" received,
\*      "done" flag written

\* the goroutine is scheduled and blocks in the receive
ListenerWait ==
  /\ lpc = "start"
  /\ lpc' = "recv"
  /\ UNCHANGED <<readerVars, shutdownClosed, handoffs>>
  /\ UNCHANGED <<pipeVars, received, loopVars>>
  /\ UNCHANGED outVars
  /\ UNCHANGED levelVars
  /\ UNCHANGED filterVars
  /\ UNCHANGED formatVars
  /\ UNCHANGED tagVars
  /\ UNCHANGED lockVars

\* a receive on a closed channel returns at once
ListenerRecvClosed ==
  /\ lpc = "recv"
  /\ shutdownClosed
  /\ lpc' = "got"
  /\ UNCHANGED <<readerVars, shutdownClosed, handoffs>>
  /\ UNCHANGED <<pipeVars, received, loopVars>>
  /\ UNCHANGED outVars
  /\ UNCHANGED levelVars
  /\ UNCHANGED filterVars
  /\ UNCHANGED formatVars
  /\ UNCHANGED tagVars
  /\ UNCHANGED lockVars

\* `r.shuttingDown = true` (under r.mtx in Reader)
ListenerSet ==
  /\ lpc = "got"
  /\ shuttingDown' = TRUE
  /\ lpc' = "done"
  /\ UNCHANGED <<impl, input, tail, pos, nl, rpc, rlen, rsd, rnl,
                 res, out, wrapperEOF, calls, sdOut, shutdownClosed, handoffs>>
  /\ UNCHANGED <<pipeVars, received, loopVars>>
  /\ UNCHANGED outVars
  /\ UNCHANGED levelVars
  /\ UNCHANGED filterVars
  /\ UNCHANGED formatVars
  /\ UNCHANGED tagVars
  /\ UNCHANGED lockVars

\* `close(shutdown)` by the owner of the channel
CloseShutdown ==
  /\ ~shutdownClosed
  /\ shutdownClosed' = TRUE
  /\ UNCHANGED <<readerVars, lpc, handoffs>>
  /\ UNCHANGED <<pipeVars, received, loopVars>>
  /\ UNCHANGED outVars
  /\ UNCHANGED levelVars
  /\ UNCHANGED filterVars
  /\ UNCHANGED formatVars
  /\ UNCHANGED tagVars
  /\ UNCHANGED lockVars

\* ------------------------------------------------------------- output
\* u.file: nil, os.Stdout, or the n-th handle returned by os.OpenFile
NilFile == [k |-> "nil", id |-> 0]
Stdout == [k |-> "stdout", id |-> 0]
Handle(n) == [k |-> "file", id |-> n]

\* what os.OpenFile and io.WriteString can answer: TRUE for success
IOResults == IF disk = "ok" THEN {TRUE} ELSE {TRUE, FALSE}

\* one entry of the observation
\* (old: u.file before, h: u.file after, n: the number of handles opened
\* before, t: the time)
Event(kind, rec, action, old, h, ep, report, email, metric) ==
  [kind |-> kind, rec |-> rec, action |-> action, old |-> old, h |-> h,
   n |-> opened, t |-> now,
   ep |-> ep, report |-> report, email |-> email, metric |-> metric]

Observe(e) == IF observed THEN Append(events, e) ELSE events

\* Unilog.reopen, with ok the answer of os.OpenFile: the new u.file, the
\* handles opened and closed so far, and whether an error is returned
ClosesOld_never(t, f) == FALSE
ClosesOld(t, f) == t # "-" /\ f.k = "file"

ReopenFile_noStdout(t, f, n, ok) == IF ok THEN Handle(n + 1) ELSE NilFile
ReopenFile_keepsOld(t, f, n, ok) ==
  IF t = "-" THEN Stdout ELSE IF ok THEN Handle(n + 1) ELSE f
ReopenFile(t, f, n, ok) ==
  IF t = "-" THEN Stdout ELSE IF ok THEN Handle(n + 1) ELSE NilFile

\* `if u.JSON { u.jsonEncoder = encjson.NewEncoder(u.file) }`, reached only
\* after a successful OpenFile: the "-" branch and the failed open return
\* before it
EncoderAfter(t, j, enc, h, ok) == IF t # "-" /\ ok /\ j THEN h ELSE enc

reopen(ok) ==
  [file |-> ReopenFile(target, file, opened, ok),
   enc |-> EncoderAfter(target, JSON, jsonEncoder,
                        ReopenFile(target, file, opened, ok), ok),
   opened |-> IF target # "-" /\ ok THEN opened + 1 ELSE opened,
   closed |-> IF ClosesOld(target, file) THEN closed \cup {file.id} ELSE closed,
   err |-> target # "-" /\ ~ok]

\* handleError: `if !u.b.broken {...} else if time.Since(u.b.at) > time.Hour {...}`
NewEpisode_always(b, a, t) == TRUE
NewEpisode_hourOnly(b, a, t) == t - a > Hour
NewEpisode(b, a, t) == ~b \/ t - a > Hour

\* handleError(action, e) for record rec: the episode, the metric, the
\* report and the email of the first failure of an episode, count++
handleError(action, rec) ==
  LET ep == NewEpisode(broken, at, now)
      c == IF ep THEN 0 ELSE count
  IN /\ broken' = TRUE
     /\ at' = IF ep THEN now ELSE at
     /\ count' = c + 1
     /\ events' = Observe(Event("fail", rec, action, file, file', ep,
                                 c = 0 /\ sentry, c = 0 /\ mail, stats))

\* `if u.file == nil { e = u.reopen() }`
NeedsOpen_never(f) == FALSE
NeedsOpen(f) == f = NilFile

\* logLine(line) / logJSON(line) for record rec: open the target if no
\* handle is open, write, and either report the failure or clear u.b.broken
logLine(rec) ==
  \E ok \in IOResults, wok \in IOResults :
    LET r == IF NeedsOpen(file)
             THEN reopen(ok)
             ELSE [file |-> file, enc |-> jsonEncoder, opened |-> opened,
                   closed |-> closed, err |-> FALSE]
    IN /\ file' = r.file
       /\ jsonEncoder' = r.enc
       /\ opened' = r.opened
       /\ closed' = r.closed
       /\ IF r.err
          THEN handleError("reopen_file", rec)
          ELSE IF ~wok
          THEN handleError("write_to_log", rec)
          ELSE /\ broken' = FALSE
               /\ events' = Observe(Event("write", rec, "none", file, r.file,
                                           FALSE, FALSE, FALSE, FALSE))
               /\ UNCHANGED <<at, count>>
       /\ UNCHANGED <<target, sentry, mail, stats, disk, now, observed>>

\* the fields of Unilog that Main and its flags set, and the result of the
\* `u.reopen()` of Main on a fresh Unilog
NewOutput(targets, disks, flags, obs) ==
  /\ target \in targets
  /\ disk \in disks
  /\ \E f \in flags : sentry = f[1] /\ mail = f[2] /\ stats = f[3]
  /\ broken = FALSE /\ at = 0 /\ count = 0
  /\ now = 0
  /\ closed = {}
  /\ observed = obs
  /\ events = <<>>
  /\ \E ok \in (IF disk = "ok" THEN {TRUE} ELSE {TRUE, FALSE}) :
       /\ file = ReopenFile(target, NilFile, 0, ok)
       /\ jsonEncoder = EncoderAfter(target, JSON, NilFile,
                                     ReopenFile(target, NilFile, 0, ok), ok)
       /\ opened = IF target # "-" /\ ok THEN 1 ELSE 0

\* time passes
Advance ==
  /\ now < MaxTime
  /\ now' = now + 1
  /\ UNCHANGED <<target, file, sentry, mail, stats, broken, at, count,
                 disk, opened, closed, jsonEncoder, observed, events>>
  /\ UNCHANGED <<readerVars, listenerVars, pipeVars, received, loopVars>>
  /\ UNCHANGED levelVars
  /\ UNCHANGED filterVars
  /\ UNCHANGED formatVars
  /\ UNCHANGED tagVars
  /\ UNCHANGED lockVars

\* ------------------------------------------------------------- clevels
Sheddable == 0
SheddablePlus == 1
Critical == 2
CriticalPlus == 3
Levels == {Sheddable, SheddablePlus, Critical, CriticalPlus}

DefaultAusterity == Sheddable

\* the austerity file: absent, or present with some contents
NoFile == [exists |-> FALSE, contents |-> ""]
FileWith(c) == [exists |-> TRUE, contents |-> c]
Contents == {"sHedDaBlePlUs", " Critical\n", "CriticalPlus", "InvalidAusterity"}

\* strings.ToLower(strings.TrimSpace(string(bts)))
LowerTrim(c) ==
  CASE c = "Sheddable" -> "sheddable"
    [] c = "sHedDaBlePlUs" -> "sheddableplus"
    [] c = " Critical\n" -> "critical"
    [] c = "CriticalPlus" -> "criticalplus"
    [] c = "InvalidAusterity" -> "invalidausterity"
    [] c = "sheddable" -> "sheddable"
    [] c = "Critical" -> "critical"
    [] c = "CRITICALPLUS" -> "criticalplus"
    [] c = "bogus" -> "bogus"
    [] OTHER -> ""

\* ParseLevel: the level named by the contents, or DefaultAusterity and
\* InvalidAusterityLevel
ParseLevel(c) ==
  LET level == LowerTrim(c) IN
  CASE level = "sheddable" -> [l |-> Sheddable, err |-> FALSE]
    [] level = "sheddableplus" -> [l |-> SheddablePlus, err |-> FALSE]
    [] level = "critical" -> [l |-> Critical, err |-> FALSE]
    [] level = "criticalplus" -> [l |-> CriticalPlus, err |-> FALSE]
    [] OTHER -> [l |-> DefaultAusterity, err |-> TRUE]

\* LoadLevel: os.Open fails on a missing file
LoadLevel(f) ==
  IF ~f.exists THEN [l |-> DefaultAusterity, err |-> TRUE] ELSE ParseLevel(f.contents)

\* `if err != nil { ...; continue }`, else `updatedLevel <- l`
SendsUpdate_always(r) == TRUE
SendsUpdate(r) == ~r.err

\* a send on SystemAusterityLevel can proceed while the buffer has room
CanServe_always(n) == TRUE
CanServe_onceLoaded(n) == n < AusterityBuffer /\ applied # <<>>
CanServe(n) == n < AusterityBuffer

\* the state at the start of SendSystemAusterityLevel
NewAusterity(files) ==
  /\ levelFile \in files
  /\ currentLevel = Sheddable
  /\ loader = [pc |-> "tick", l |-> Sheddable, err |-> FALSE]
  /\ levelCh = <<>>
  /\ loads = <<>> /\ applied = <<>> /\ reads = <<>>

\* somebody writes or removes the austerity file
WriteAusterityFile ==
  /\ Len(loads) < MaxLoads
  /\ \E f \in {NoFile} \cup {FileWith(c) : c \in Contents} :
       /\ f # levelFile
       /\ levelFile' = f
  /\ UNCHANGED <<currentLevel, loader, levelCh, loads, applied, reads>>
  /\ UNCHANGED <<readerVars, listenerVars, pipeVars, received, loopVars, outVars>>
  /\ UNCHANGED filterVars
  /\ UNCHANGED formatVars
  /\ UNCHANGED tagVars
  /\ UNCHANGED lockVars

\* the loader goroutine: a tick of the ticker, LoadLevel, and on an error
\* the metric and `continue`
LoaderLoad ==
  /\ loader.pc = "tick"
  /\ Len(loads) < MaxLoads
  /\ LET r == LoadLevel(levelFile) IN
     /\ loads' = Append(loads, r)
     /\ loader' = [pc |-> IF SendsUpdate(r) THEN "send" ELSE "tick",
                   l |-> r.l, err |-> r.err]
  /\ UNCHANGED <<levelFile, currentLevel, levelCh, applied, reads>>
  /\ UNCHANGED <<readerVars, listenerVars, pipeVars, received, loopVars, outVars>>
  /\ UNCHANGED filterVars
  /\ UNCHANGED formatVars
  /\ UNCHANGED tagVars
  /\ UNCHANGED lockVars

\* `case newLevel := <-newLevelCh: currentLevel = newLevel`, together with
\* the loader's `updatedLevel <- l` (the channel is unbuffered)
ApplyLevel ==
  /\ loader.pc = "send"
  /\ currentLevel' = loader.l
  /\ applied' = Append(applied, loader.l)
  /\ loader' = [loader EXCEPT !.pc = "tick"]
  /\ UNCHANGED <<levelFile, levelCh, loads, reads>>
  /\ UNCHANGED <<readerVars, listenerVars, pipeVars, received, loopVars, outVars>>
  /\ UNCHANGED filterVars
  /\ UNCHANGED formatVars
  /\ UNCHANGED tagVars
  /\ UNCHANGED lockVars

\* `case _SystemAusterityLevel <- currentLevel:` (ver: how many levels had
\* been applied when the value was sent)
ServeLevel ==
  /\ CanServe(Len(levelCh))
  /\ Len(reads) + Len(levelCh) < MaxReads
  /\ levelCh' = Append(levelCh, [v |-> currentLevel, ver |-> Len(applied)])
  /\ UNCHANGED <<levelFile, currentLevel, loader, loads, applied, reads>>
  /\ UNCHANGED <<readerVars, listenerVars, pipeVars, received, loopVars, outVars>>
  /\ UNCHANGED filterVars
  /\ UNCHANGED formatVars
  /\ UNCHANGED tagVars
  /\ UNCHANGED lockVars

\* ShouldShed: `austerityLevel := <-clevels.SystemAusterityLevel`
ShouldShed ==
  /\ levelCh # <<>>
  /\ reads' = Append(reads, [v |-> Head(levelCh).v, ver |-> Head(levelCh).ver,
                             nloads |-> Len(loads), napplied |-> Len(applied)])
  /\ levelCh' = Tail(levelCh)
  /\ UNCHANGED <<levelFile, currentLevel, loader, loads, applied>>
  /\ UNCHANGED <<readerVars, listenerVars, pipeVars, received, loopVars, outVars>>
  /\ UNCHANGED filterVars
  /\ UNCHANGED formatVars
  /\ UNCHANGED tagVars
  /\ UNCHANGED lockVars

\* ------------------------------------------------------------- filters
\* A text line is a sequence of tokens separated by single spaces:
\*   Word(w)     the word w
\*   Marker(u)   "CANONICAL-API-LINE:" if u, "canonical-monster-line:" if not
\*   Bracket(w)  "[clevel: w]"
\*   Inline(w)   "clevel=w"
Word(w) == [k |-> "word", w |-> w, u |-> FALSE]
Marker(u) == [k |-> "marker", w |-> "", u |-> u]
Bracket(w) == [k |-> "bracket", w |-> w, u |-> FALSE]
Inline(w) == [k |-> "inline", w |-> w, u |-> FALSE]

Tokens == {Word("msg"), Marker(TRUE), Marker(FALSE),
           Bracket("Critical"), Bracket("bogus"),
           Inline("sheddable"), Inline("CRITICALPLUS")}

Lines == UNION {[1..n -> Tokens] : n \in 1..MaxTokens}

\* canonicalRegex = `CANONICAL-\w+?-LINE` matches inside the i-th token
canonicalRegex(line, i) == line[i].k = "marker" /\ line[i].u

\* cLevelRegex = `\[clevel: (\w*?)\]` and cLevelChalkRegex =
\* `\sclevel=(\w+?)\b` (which needs a whitespace before "clevel=", so it
\* cannot match at the start of the line) match the i-th token
RegexMatches(form, line, i) ==
  IF form = "bracket" THEN line[i].k = "bracket"
  ELSE line[i].k = "inline" /\ i > 1

\* r.FindStringSubmatch(line): the leftmost match, 0 if there is none
FindStringSubmatch(form, line) ==
  IF \E i \in 1..Len(line) : RegexMatches(form, line, i)
  THEN CHOOSE i \in 1..Len(line) :
         /\ RegexMatches(form, line, i)
         /\ \A j \in 1..(i - 1) : ~RegexMatches(form, line, j)
  ELSE 0

clevelRegexes_swapped == <<"inline", "bracket">>
clevelRegexes == <<"bracket", "inline">>

DefaultCriticality == SheddablePlus

\* the loop `for _, r := range clevelRegexes` from its n-th regex on
RECURSIVE TryRegexes(_, _)
TryRegexes(line, n) ==
  IF n > Len(clevelRegexes) THEN DefaultCriticality
  ELSE LET i == FindStringSubmatch(clevelRegexes[n], line) IN
       IF i = 0 THEN TryRegexes(line, n + 1)
       ELSE LET r == ParseLevel(line[i].w) IN
            IF r.err THEN TryRegexes(line, n + 1) ELSE r.l

\* clevels.Criticality
Criticality(line) ==
  IF \E i \in 1..Len(line) : canonicalRegex(line, i)
  THEN CriticalPlus
  ELSE TryRegexes(line, 1)

\* rand.Float64() and the sampling rate, in units of 1/Scale
Scale == 10 ^ (CriticalPlus - Sheddable)
Draws == {d \in 0..(Scale - 1) :
            \E e \in 0..(CriticalPlus - Sheddable) : d \in {10 ^ e - 1, 10 ^ e, 10 ^ e + 1}}

\* samplingRate(austerityLevel, criticalityLevel)
samplingRate_flat(a, c) == IF c > a THEN Scale ELSE Scale \div 10
samplingRate(a, c) == IF c > a THEN Scale ELSE Scale \div (10 ^ (a - c))

\* the decision of ShouldShed once the austerity level a is received
Sheds_atOrBelow(c, a, d) == IF c > a THEN FALSE ELSE d > Scale \div 10
Sheds(c, a, d) == IF c >= a THEN FALSE ELSE d > samplingRate(a, c)

\* the sentinel "(shedded)"
Shedded == <<Word("(shedded)")>>

NoRecord == [k \in {} |-> ""]

\* A structured record is a mapping from field names to values (all values
\* are written as strings): the time stamp under "ts" or "timestamp", a
\* message, and the optional fields "clevel" and "canonical".
JSONKeys == {"ts", "timestamp", "message", "clevel", "canonical"}
JSONClevels == {"sheddable", "Critical", "bogus"}
FieldValue(k, cl) ==
  CASE k = "ts" -> "T1"
    [] k = "timestamp" -> "T2"
    [] k = "message" -> "hi"
    [] k = "clevel" -> cl
    [] k = "canonical" -> "true"
JSONRecords ==
  {[k \in D |-> FieldValue(k, cl)] :
     D \in {D \in SUBSET JSONKeys : "message" \in D}, cl \in JSONClevels}

\* clevels.JSONCriticality: the same precedence as Criticality, read from
\* the fields "canonical" and "clevel" of the decoded mapping
JSONCriticality(rec) ==
  IF "canonical" \in DOMAIN rec /\ rec["canonical"] = "true" THEN CriticalPlus
  ELSE IF "clevel" \in DOMAIN rec /\ ~ParseLevel(rec["clevel"]).err
       THEN ParseLevel(rec["clevel"]).l
       ELSE DefaultCriticality

\* the mapping FilterJSON puts in place of a shed record
SheddedRecord(rec) ==
  [k \in ({"ts"} \cap DOMAIN rec) \cup {"shedded"} |->
     IF k = "shedded" THEN "true" ELSE rec[k]]

NoInput == [mode |-> "none", line |-> <<>>, rec |-> NoRecord]

NoResult == [mode |-> "none", line |-> <<>>, rec |-> NoRecord, crit |-> Sheddable,
             a |-> Sheddable, d |-> 0, shed |-> FALSE,
             out |-> <<>>, outrec |-> NoRecord]

NewFilter ==
  /\ fin = NoInput
  /\ fres = NoResult

\* no record logged yet
NotLogged == [path |-> "none", line |-> <<>>, data |-> <<>>, rec |-> NoRecord,
              outcome |-> "none", n |-> 0]

\* the fields JSON and Filters of Unilog as configured
NewFormat(modes, lists) ==
  /\ JSON \in modes
  /\ Filters \in lists
  /\ logged = NotLogged

\* the caller has taken the filter's result (the observation is dropped)
FilterReturn ==
  /\ fres.mode # "none"
  /\ fres' = NoResult
  /\ UNCHANGED fin
  /\ UNCHANGED <<readerVars, listenerVars, pipeVars, received, loopVars, outVars,
                 levelVars, formatVars, tagVars, lockVars>>

\* a text line reaches the filter chain
ArriveLine ==
  /\ fin.mode = "none"
  /\ fres.mode = "none"
  /\ \E line \in Lines : fin' = [mode |-> "text", line |-> line, rec |-> NoRecord]
  /\ UNCHANGED fres
  /\ UNCHANGED <<readerVars, listenerVars, pipeVars, received, loopVars, outVars,
                 levelVars, formatVars, tagVars, lockVars>>

\* a decoded structured record reaches the filter chain
ArriveJSON ==
  /\ fin.mode = "none"
  /\ fres.mode = "none"
  /\ \E rec \in JSONRecords : fin' = [mode |-> "json", line |-> <<>>, rec |-> rec]
  /\ UNCHANGED fres
  /\ UNCHANGED <<readerVars, listenerVars, pipeVars, received, loopVars, outVars,
                 levelVars, formatVars, tagVars, lockVars>>

\* AusterityFilter.FilterJSON(line): JSONCriticality, ShouldShed, and the
\* record replaced in place when it is shed
FilterJSON ==
  /\ fin.mode = "json"
  /\ levelCh # <<>>
  /\ \E d \in Draws :
       LET c == JSONCriticality(fin.rec)
           a == Head(levelCh).v
           shed == Sheds(c, a, d)
       IN fres' = [mode |-> "json", line |-> <<>>, rec |-> fin.rec, crit |-> c,
                   a |-> a, d |-> d, shed |-> shed, out |-> <<>>,
                   outrec |-> IF shed THEN SheddedRecord(fin.rec) ELSE fin.rec]
  /\ fin' = NoInput
  /\ levelCh' = Tail(levelCh)
  /\ UNCHANGED <<levelFile, currentLevel, loader, loads, applied, reads>>
  /\ UNCHANGED <<readerVars, listenerVars, pipeVars, received, loopVars, outVars,
                 formatVars, tagVars, lockVars>>

\* AusterityFilter.FilterLine(line): Criticality, ShouldShed (a receive from
\* SystemAusterityLevel and a random draw), and the sentinel or the line
FilterLine ==
  /\ fin.mode = "text"
  /\ levelCh # <<>>
  /\ \E d \in Draws :
       LET c == Criticality(fin.line)
           a == Head(levelCh).v
           shed == Sheds(c, a, d)
       IN fres' = [mode |-> "text", line |-> fin.line, rec |-> NoRecord, crit |-> c,
                   a |-> a, d |-> d, shed |-> shed,
                   out |-> IF shed THEN Shedded ELSE fin.line, outrec |-> NoRecord]
  /\ fin' = NoInput
  /\ levelCh' = Tail(levelCh)
  /\ UNCHANGED <<levelFile, currentLevel, loader, loads, applied, reads>>
  /\ UNCHANGED <<readerVars, listenerVars, pipeVars, received, loopVars, outVars,
                 formatVars, tagVars, lockVars>>

\* ------------------------------------------------------------- SpecReader
\* `r := &Reader{inner: in}` and the goroutine just created
NewReader(ins, impls) ==
  /\ impl \in impls
  /\ input \in ins
  /\ tail \in {"EOF", "EIO"}
  /\ pos = 0
  /\ nl = FALSE
  /\ shuttingDown = FALSE
  /\ rpc = "idle" /\ rlen = 0 /\ rsd = FALSE /\ rnl = FALSE
  /\ res = NoRes /\ out = <<>> /\ wrapperEOF = FALSE /\ calls = 0 /\ sdOut = -1
  /\ shutdownClosed = FALSE /\ lpc = "start" /\ handoffs = 0

\* the channels and the bufio.Reader made by readlines
NewPipe(caps) ==
  /\ bufsize \in caps
  /\ bbuf = <<>> /\ berr = "nil" /\ acc = <<>>
  /\ ppc = "scan" /\ ps = <<>> /\ perr = "nil"
  /\ linec = <<>> /\ linecClosed = FALSE /\ errc = <<>>
  /\ received = <<>>

\* `u := &Unilog{}` with its channels made
NewUnilog ==
  /\ loop = "running"
  /\ sigTerm = 0 /\ sigQuit = 0 /\ sigReopen = 0
  /\ shouldShutdown = FALSE /\ exitCode = -1
  /\ termSent = 0 /\ quitSent = 0 /\ reopenSent = 0 /\ termsDone = 0

\* ------------------------------------------------------------- tagState
MaxTags == 2         \* longest list of independent tags
MaxCallers == 2      \* goroutines calling GetTags
MaxGets == 3         \* calls of GetTags

\* a tag is a string over a letter or two and ':' ("k:v", ":v", "h", "")
TagSet == {<<"k", ":", "v">>, <<":", "v">>, <<"h">>, <<>>}
TagLists == SeqsUpTo(TagSet, MaxTags)
MetricNames == {"m", "n"}

\* `strings.Split(tag, ":")[0]`
FirstColon(tag) ==
  IF \E i \in 1..Len(tag) : tag[i] = ":"
  THEN CHOOSE i \in 1..Len(tag) :
         tag[i] = ":" /\ \A j \in 1..(i - 1) : tag[j] # ":"
  ELSE Len(tag) + 1
TagPrefix(tag) == SubSeq(tag, 1, FirstColon(tag) - 1)

\* `if len(prefix) == 0 { continue }`
SkipsTag_never(prefix) == FALSE
SkipsTag(prefix) == Len(prefix) = 0

\* `tagPair{t: tag, n: fmt.Sprintf("%s.%s", metricName, prefix)}`
tagPair(tag, metricName, prefix) == [t |-> tag, n |-> <<metricName, ".">> \o prefix]

\* `for _, tag := range it.Tags { ... }` from the i-th tag on
RECURSIVE RangeTags(_, _, _)
RangeTags(tags, i, metricName) ==
  IF i > Len(tags) THEN <<>>
  ELSE LET prefix == TagPrefix(tags[i])
           rest == RangeTags(tags, i + 1, metricName)
       IN IF SkipsTag(prefix) THEN rest
          ELSE <<tagPair(tags[i], metricName, prefix)>> \o rest

\* it.Lock() goes through when nobody holds the lock
TagLockFree_always(h) == TRUE
TagLockFree(h) == h = 0

NoCall == [pc |-> "idle", name |-> "", tags |-> <<>>]

\* tagState as Main leaves it (setupIndependentTags) or nil
NewTags(nils, lists) ==
  /\ tagsNil \in nils
  /\ Tags \in lists
  /\ metricsTable = [n \in {} |-> <<>>]
  /\ tagLock = 0
  /\ getters = [c \in 1..MaxCallers |-> NoCall]
  /\ inserted = [n \in MetricNames |-> 0]
  /\ returned = {}
  /\ gets = 0

TagsOnly ==
  /\ UNCHANGED <<readerVars, listenerVars, pipeVars, received, loopVars>>
  /\ UNCHANGED outVars
  /\ UNCHANGED levelVars
  /\ UNCHANGED filterVars
  /\ UNCHANGED formatVars
  /\ UNCHANGED lockVars

\* GetTags(metricName) begins: `if it == nil { return []tagPair{} }`
GetTagsCall ==
  /\ gets < MaxGets
  /\ gets' = gets + 1
  /\ \E c \in 1..MaxCallers, name \in MetricNames :
       /\ getters[c].pc = "idle"
       /\ IF tagsNil
          THEN /\ returned' = returned \cup {[name |-> name, tags |-> <<>>]}
               /\ UNCHANGED getters
          ELSE /\ getters' = [getters EXCEPT ![c] = [pc |-> "lock", name |-> name,
                                                     tags |-> <<>>]]
               /\ UNCHANGED returned
  /\ UNCHANGED <<tagsNil, Tags, metricsTable, tagLock, inserted>>
  /\ TagsOnly

\* `it.Lock()`
GetTagsLock ==
  /\ \E c \in 1..MaxCallers :
       /\ getters[c].pc = "lock"
       /\ TagLockFree(tagLock)
       /\ tagLock' = c
       /\ getters' = [getters EXCEPT ![c].pc = "lookup"]
  /\ UNCHANGED <<tagsNil, Tags, metricsTable, inserted, returned, gets>>
  /\ TagsOnly

\* `tags, ok := it.metricsTable[metricName]; if ok { return tags }`
GetTagsLookup ==
  /\ \E c \in 1..MaxCallers :
       /\ getters[c].pc = "lookup"
       /\ IF getters[c].name \in DOMAIN metricsTable
          THEN getters' = [getters EXCEPT ![c].pc = "unlock",
                                          ![c].tags = metricsTable[getters[c].name]]
          ELSE getters' = [getters EXCEPT ![c].pc = "insert"]
  /\ UNCHANGED <<tagsNil, Tags, metricsTable, tagLock, inserted, returned, gets>>
  /\ TagsOnly

\* the loop over it.Tags, `it.metricsTable[metricName] = tags; return tags`
GetTagsInsert ==
  /\ \E c \in 1..MaxCallers :
       /\ getters[c].pc = "insert"
       /\ LET name == getters[c].name
              tags == RangeTags(Tags, 1, name)
          IN /\ metricsTable' = [n \in DOMAIN metricsTable \cup {name} |->
                                   IF n = name THEN tags ELSE metricsTable[n]]
             /\ inserted' = [inserted EXCEPT ![name] = @ + 1]
             /\ getters' = [getters EXCEPT ![c].pc = "unlock", ![c].tags = tags]
  /\ UNCHANGED <<tagsNil, Tags, tagLock, returned, gets>>
  /\ TagsOnly

\* the deferred `it.Unlock()`, and the caller has its result
GetTagsUnlock ==
  /\ \E c \in 1..MaxCallers :
       /\ getters[c].pc = "unlock"
       /\ tagLock' = 0
       /\ returned' = returned \cup {[name |-> getters[c].name,
                                      tags |-> getters[c].tags]}
       /\ getters' = [getters EXCEPT ![c] = NoCall]
  /\ UNCHANGED <<tagsNil, Tags, metricsTable, inserted, gets>>
  /\ TagsOnly

\* ------------------------------------------------------------- r.mtx
\* the state of Reader.mtx and of the accesses to shuttingDown
NewMutex ==
  /\ mtx = "free"
  /\ touching = {}
  /\ rchk = 1

\* a load of shuttingDown that overlaps a store is a data race: it may
\* return either value
FlagLoad == IF "listener" \in touching THEN BOOLEAN ELSE {shuttingDown}

LockOnly ==
  /\ UNCHANGED <<pipeVars, received, loopVars>>
  /\ UNCHANGED outVars
  /\ UNCHANGED levelVars
  /\ UNCHANGED filterVars
  /\ UNCHANGED formatVars
  /\ UNCHANGED tagVars

\* listener of Reader: `r.mtx.Lock()`
ListenerLock ==
  /\ lpc = "got"
  /\ impl = "Reader"
  /\ mtx = "free"
  /\ mtx' = "listener"
  /\ lpc' = "locked"
  /\ UNCHANGED <<readerVars, shutdownClosed, handoffs, touching, rchk>>
  /\ LockOnly

\* `r.shuttingDown = true` begins (UnilogReader's listener takes no lock)
ListenerStore ==
  /\ \/ impl = "Reader" /\ lpc = "locked"
     \/ impl = "UnilogReader" /\ lpc = "got"
  /\ touching' = touching \cup {"listener"}
  /\ lpc' = "store"
  /\ UNCHANGED <<readerVars, shutdownClosed, handoffs, mtx, rchk>>
  /\ LockOnly

\* the store is done
ListenerStored ==
  /\ lpc = "store"
  /\ shuttingDown' = TRUE
  /\ touching' = touching \ {"listener"}
  /\ lpc' = IF impl = "Reader" THEN "unlock" ELSE "done"
  /\ UNCHANGED <<impl, input, tail, pos, nl, rpc, rlen, rsd, rnl,
                 res, out, wrapperEOF, calls, sdOut>>
  /\ UNCHANGED <<shutdownClosed, handoffs, mtx, rchk>>
  /\ LockOnly

\* `r.mtx.Unlock()`
ListenerUnlock ==
  /\ lpc = "unlock"
  /\ mtx' = "free"
  /\ lpc' = "done"
  /\ UNCHANGED <<readerVars, shutdownClosed, handoffs, touching, rchk>>
  /\ LockOnly

\* Read begins: `r.nl && ...` looks at the flag only when r.nl is set;
\* UnilogReader has a second look, `if u.shuttingDown { buf = buf[:1] }`
FlagRead ==
  /\ rpc = "idle"
  /\ calls < MaxCalls
  /\ calls' = calls + 1
  /\ rchk' = IF nl THEN 1 ELSE 2
  /\ rpc' = IF nl \/ impl = "UnilogReader" THEN "check" ELSE "inner"
  /\ UNCHANGED <<impl, input, tail, pos, nl, shuttingDown, rlen, rsd, rnl,
                 res, out, wrapperEOF, sdOut>>
  /\ UNCHANGED <<listenerVars, mtx, touching>>
  /\ LockOnly

\* isShuttingDown: `r.mtx.Lock()`
FlagLock ==
  /\ rpc = "check"
  /\ impl = "Reader"
  /\ mtx = "free"
  /\ mtx' = "reader"
  /\ rpc' = "locked"
  /\ UNCHANGED <<impl, input, tail, pos, nl, shuttingDown, rlen, rsd, rnl,
                 res, out, wrapperEOF, calls, sdOut>>
  /\ UNCHANGED <<listenerVars, touching, rchk>>
  /\ LockOnly

\* the load of the flag begins (UnilogReader takes no lock)
FlagLoadBegin ==
  /\ \/ impl = "Reader" /\ rpc = "locked"
     \/ impl = "UnilogReader" /\ rpc = "check"
  /\ touching' = touching \cup {"reader"}
  /\ rpc' = "load"
  /\ UNCHANGED <<impl, input, tail, pos, nl, shuttingDown, rlen, rsd, rnl,
                 res, out, wrapperEOF, calls, sdOut>>
  /\ UNCHANGED <<listenerVars, mtx, rchk>>
  /\ LockOnly

\* the load is done; UnilogReader decides at once: `return 0, io.EOF` on
\* the first look, the second look only sizes the buffer
FlagLoadEnd ==
  /\ rpc = "load"
  /\ touching' = touching \ {"reader"}
  /\ \E v \in FlagLoad :
       /\ rsd' = v
       /\ IF impl = "Reader"
          THEN rpc' = "unlock" /\ UNCHANGED <<wrapperEOF, rchk>>
          ELSE IF rchk = 1 /\ v
          THEN rpc' = "idle" /\ wrapperEOF' = TRUE /\ UNCHANGED rchk
          ELSE IF rchk = 1
          THEN rpc' = "check" /\ rchk' = 2 /\ UNCHANGED wrapperEOF
          ELSE rpc' = "inner" /\ UNCHANGED <<wrapperEOF, rchk>>
  /\ UNCHANGED <<impl, input, tail, pos, nl, shuttingDown, rlen, rnl,
                 res, out, calls, sdOut>>
  /\ UNCHANGED <<listenerVars, mtx>>
  /\ LockOnly

\* isShuttingDown: `r.mtx.Unlock()`, and Read decides on the value loaded
FlagUnlock ==
  /\ rpc = "unlock"
  /\ mtx' = "free"
  /\ IF rsd
     THEN rpc' = "idle" /\ wrapperEOF' = TRUE
     ELSE rpc' = "inner" /\ UNCHANGED wrapperEOF
  /\ UNCHANGED <<impl, input, tail, pos, nl, shuttingDown, rlen, rsd, rnl,
                 res, out, calls, sdOut>>
  /\ UNCHANGED <<listenerVars, touching, rchk>>
  /\ LockOnly

\* `n, e := r.inner.Read(buf)`: the chunk ends on a newline byte or not
FlagInner ==
  /\ rpc = "inner"
  /\ nl' \in BOOLEAN
  /\ rpc' = "idle"
  /\ UNCHANGED <<impl, input, tail, pos, shuttingDown, rlen, rsd, rnl,
                 res, out, wrapperEOF, calls, sdOut>>
  /\ UNCHANGED <<listenerVars, lockVars>>
  /\ LockOnly

Impls == {"Reader", "UnilogReader"}

InitReader ==
  /\ NewReader(Inputs, Impls)
  /\ NewPipe({1})
  /\ NewUnilog
  /\ NewFormat({FALSE}, {<<>>})
  /\ NewOutput({"-"}, {"ok"}, {<<FALSE, FALSE, FALSE>>}, FALSE)
  /\ NewAusterity({NoFile})
  /\ NewFilter
  /\ NewTags({TRUE}, {<<>>})
  /\ NewMutex

\* a caller holding the reader: rd.Read(buf[:k])
CallerRead ==
  /\ calls < MaxCalls
  /\ \E k \in 1..MaxBuf : ReadBegin(k)
  /\ UNCHANGED <<listenerVars, pipeVars, received, loopVars>>
  /\ UNCHANGED outVars
  /\ UNCHANGED levelVars
  /\ UNCHANGED filterVars
  /\ UNCHANGED formatVars
  /\ UNCHANGED tagVars
  /\ UNCHANGED lockVars

CallerReadInner ==
  /\ ReadInner
  /\ UNCHANGED <<listenerVars, pipeVars, received, loopVars>>
  /\ UNCHANGED outVars
  /\ UNCHANGED levelVars
  /\ UNCHANGED filterVars
  /\ UNCHANGED formatVars
  /\ UNCHANGED tagVars
  /\ UNCHANGED lockVars

NextReader ==
  \/ CallerRead
  \/ CallerReadInner
  \/ ListenerWait
  \/ ListenerRecvClosed
  \/ ListenerSet
  \/ CloseShutdown

SpecReader == InitReader /\ [][NextReader]_vars

\* ------------------------------------------------------------- SpecTags
\* goroutines calling GetTags on a tagState that is nil or holds any list
\* of tags
InitTags ==
  /\ NewReader({<<>>}, {"Reader"})
  /\ tail = "EOF"
  /\ NewPipe({1})
  /\ NewUnilog
  /\ NewFormat({FALSE}, {<<>>})
  /\ NewOutput({"-"}, {"ok"}, {<<FALSE, FALSE, FALSE>>}, FALSE)
  /\ NewAusterity({NoFile})
  /\ NewFilter
  /\ NewTags(BOOLEAN, TagLists)
  /\ NewMutex

NextTags ==
  \/ GetTagsCall
  \/ GetTagsLock
  \/ GetTagsLookup
  \/ GetTagsInsert
  \/ GetTagsUnlock

SpecTags == InitTags /\ [][NextTags]_vars

\* ------------------------------------------------------------- SpecLock
\* Read calls on either reader while the listener goroutine sets the flag,
\* at the grain of the lock operations and of the accesses to the flag
InitLock ==
  /\ NewReader({<<>>}, Impls)
  /\ tail = "EOF"
  /\ NewPipe({1})
  /\ NewUnilog
  /\ NewFormat({FALSE}, {<<>>})
  /\ NewOutput({"-"}, {"ok"}, {<<FALSE, FALSE, FALSE>>}, FALSE)
  /\ NewAusterity({NoFile})
  /\ NewFilter
  /\ NewTags({TRUE}, {<<>>})
  /\ NewMutex

NextLock ==
  \/ CloseShutdown
  \/ ListenerWait
  \/ ListenerRecvClosed
  \/ ListenerLock
  \/ ListenerStore
  \/ ListenerStored
  \/ ListenerUnlock
  \/ FlagRead
  \/ FlagLock
  \/ FlagLoadBegin
  \/ FlagLoadEnd
  \/ FlagUnlock
  \/ FlagInner

SpecLock == InitLock /\ [][NextLock]_vars

\* ------------------------------------------------------------- readlines
HasNL(s) == \E i \in 1..Len(s) : s[i] = NL

FirstNL(s) == CHOOSE i \in 1..Len(s) : s[i] = NL /\ \A j \in 1..(i - 1) : s[j] # NL

\* strings.TrimRight(s, "\n")
RECURSIVE TrimRight(_)
TrimRight(s) == IF LastIsNL(s) THEN TrimRight(SubSeq(s, 1, Len(s) - 1)) ELSE s

\* `if s != "" { ... linec <- s }`
SendsLine_always(s) == TRUE
SendsLine(s) == s # <<>>

\* a send on a buffered channel of capacity cap goes through when the
\* channel holds fewer than cap values, and blocks otherwise
CanSend_unbounded(q, cap) == TRUE
CanSend(q, cap) == Len(q) < cap

\* bufio.Reader.ReadSlice has to call fill: no delimiter buffered, no error
\* pending, buffer not full
NeedFill == ~HasNL(bbuf) /\ berr = "nil" /\ Len(bbuf) < BufSize

\* bufio.Reader.fill, after rd.Read returned r
Absorb(r) ==
  /\ bbuf' = bbuf \o r.data
  /\ berr' = IF r.err # "nil" THEN r.err ELSE berr
  /\ ppc' = "scan"
  /\ UNCHANGED <<bufsize, acc, ps, perr, linec, linecClosed, errc>>

\* r.ReadString('\n') calls fill, which calls u.Read with the free part of
\* the buffer; the reader may answer with its own EOF at once
ReadStringFill ==
  /\ ppc = "scan"
  /\ NeedFill
  /\ ReadBegin(BufSize - Len(bbuf))
  /\ IF rpc' = "idle"
     THEN Absorb(res')
     ELSE ppc' = "read" /\ UNCHANGED <<bufsize, bbuf, berr, acc, ps, perr,
                                        linec, linecClosed, errc>>
  /\ UNCHANGED <<listenerVars, received, loopVars>>
  /\ UNCHANGED outVars
  /\ UNCHANGED levelVars
  /\ UNCHANGED filterVars
  /\ UNCHANGED formatVars
  /\ UNCHANGED tagVars
  /\ UNCHANGED lockVars

\* inner.Read returns inside that call
ReadStringFilled ==
  /\ ppc = "read"
  /\ ReadInner
  /\ Absorb(res')
  /\ UNCHANGED <<listenerVars, received, loopVars>>
  /\ UNCHANGED outVars
  /\ UNCHANGED levelVars
  /\ UNCHANGED filterVars
  /\ UNCHANGED formatVars
  /\ UNCHANGED tagVars
  /\ UNCHANGED lockVars

\* r.ReadString('\n') on what is buffered: a line through its delimiter, or
\* the rest with the pending error, or a full buffer kept as a fragment
ReadStringScan ==
  /\ ppc = "scan"
  /\ ~NeedFill
  /\ IF HasNL(bbuf)
     THEN LET i == FirstNL(bbuf) IN
          /\ ps' = acc \o SubSeq(bbuf, 1, i)
          /\ perr' = "nil"
          /\ bbuf' = SubSeq(bbuf, i + 1, Len(bbuf))
          /\ acc' = <<>>
          /\ ppc' = "got"
          /\ UNCHANGED berr
     ELSE IF berr # "nil"
     THEN /\ ps' = acc \o bbuf
          /\ perr' = berr
          /\ berr' = "nil"
          /\ bbuf' = <<>>
          /\ acc' = <<>>
          /\ ppc' = "got"
     ELSE /\ acc' = acc \o bbuf
          /\ bbuf' = <<>>
          /\ UNCHANGED <<ps, perr, berr, ppc>>
  /\ UNCHANGED <<bufsize, linec, linecClosed, errc>>
  /\ UNCHANGED <<readerVars, listenerVars, received, loopVars>>
  /\ UNCHANGED outVars
  /\ UNCHANGED levelVars
  /\ UNCHANGED filterVars
  /\ UNCHANGED formatVars
  /\ UNCHANGED tagVars
  /\ UNCHANGED lockVars

\* the loop body after ReadString: send the trimmed line if s is not empty
\* (blocking while linec is full), then loop while err == nil
SendLine ==
  /\ ppc = "got"
  /\ IF SendsLine(ps)
     THEN /\ CanSend(linec, bufsize)
          /\ linec' = Append(linec, TrimRight(ps))
     ELSE UNCHANGED linec
  /\ ppc' = IF perr = "nil" THEN "scan" ELSE IF perr = "EOF" THEN "close" ELSE "fin"
  /\ UNCHANGED <<bufsize, bbuf, berr, acc, ps, perr, linecClosed, errc>>
  /\ UNCHANGED <<readerVars, listenerVars, received, loopVars>>
  /\ UNCHANGED outVars
  /\ UNCHANGED levelVars
  /\ UNCHANGED filterVars
  /\ UNCHANGED formatVars
  /\ UNCHANGED tagVars
  /\ UNCHANGED lockVars

\* `if err != io.EOF { errc <- err }`
SendErr ==
  /\ ppc = "fin"
  /\ CanSend(errc, 1)
  /\ errc' = Append(errc, perr)
  /\ ppc' = "close"
  /\ UNCHANGED <<bufsize, bbuf, berr, acc, ps, perr, linec, linecClosed>>
  /\ UNCHANGED <<readerVars, listenerVars, received, loopVars>>
  /\ UNCHANGED outVars
  /\ UNCHANGED levelVars
  /\ UNCHANGED filterVars
  /\ UNCHANGED formatVars
  /\ UNCHANGED tagVars
  /\ UNCHANGED lockVars

\* `close(linec)`
CloseLinec ==
  /\ ppc = "close"
  /\ linecClosed' = TRUE
  /\ ppc' = "done"
  /\ UNCHANGED <<bufsize, bbuf, berr, acc, ps, perr, linec, errc>>
  /\ UNCHANGED <<readerVars, listenerVars, received, loopVars>>
  /\ UNCHANGED outVars
  /\ UNCHANGED levelVars
  /\ UNCHANGED filterVars
  /\ UNCHANGED formatVars
  /\ UNCHANGED tagVars
  /\ UNCHANGED lockVars

\* ------------------------------------------------------------- SpecPipe
\* `for line := range lc`
RangeRecv ==
  /\ loop = "running"
  /\ linec # <<>>
  /\ received' = Append(received, Head(linec))
  /\ linec' = Tail(linec)
  /\ UNCHANGED <<bufsize, bbuf, berr, acc, ppc, ps, perr, linecClosed, errc>>
  /\ UNCHANGED <<readerVars, listenerVars, loopVars>>
  /\ UNCHANGED outVars
  /\ UNCHANGED levelVars
  /\ UNCHANGED filterVars
  /\ UNCHANGED formatVars
  /\ UNCHANGED tagVars
  /\ UNCHANGED lockVars

RangeEnd ==
  /\ loop = "running"
  /\ linec = <<>>
  /\ linecClosed
  /\ loop' = "stopped"
  /\ UNCHANGED <<sigTerm, sigQuit, sigReopen, shouldShutdown, exitCode,
                 termSent, quitSent, reopenSent, termsDone>>
  /\ UNCHANGED <<readerVars, listenerVars, pipeVars, received>>
  /\ UNCHANGED outVars
  /\ UNCHANGED levelVars
  /\ UNCHANGED filterVars
  /\ UNCHANGED formatVars
  /\ UNCHANGED tagVars
  /\ UNCHANGED lockVars

InitPipe ==
  /\ NewReader(Inputs, Impls)
  /\ NewPipe(1..MaxQueue)
  /\ NewUnilog
  /\ NewFormat({FALSE}, {<<>>})
  /\ NewOutput({"-"}, {"ok"}, {<<FALSE, FALSE, FALSE>>}, FALSE)
  /\ NewAusterity({NoFile})
  /\ NewFilter
  /\ NewTags({TRUE}, {<<>>})
  /\ NewMutex

NextPipe ==
  \/ ReadStringFill
  \/ ReadStringFilled
  \/ ReadStringScan
  \/ SendLine
  \/ SendErr
  \/ CloseLinec
  \/ RangeRecv
  \/ RangeEnd
  \/ ListenerWait
  \/ ListenerRecvClosed
  \/ ListenerSet
  \/ CloseShutdown

SpecPipe == InitPipe /\ [][NextPipe]_vars

\* ------------------------------------------------------------- signals
\* signal.Notify delivers without blocking: a signal that finds the
\* channel full is dropped
Notify(n) == IF n < SigCap THEN n + 1 ELSE n

SendTerm ==
  /\ termSent < MaxTerm
  /\ termSent' = termSent + 1
  /\ sigTerm' = Notify(sigTerm)
  /\ UNCHANGED <<loop, sigQuit, sigReopen, shouldShutdown, exitCode,
                 quitSent, reopenSent, termsDone>>
  /\ UNCHANGED <<readerVars, listenerVars, pipeVars, received>>
  /\ UNCHANGED outVars
  /\ UNCHANGED levelVars
  /\ UNCHANGED filterVars
  /\ UNCHANGED formatVars
  /\ UNCHANGED tagVars
  /\ UNCHANGED lockVars

SendQuit ==
  /\ quitSent < MaxQuit
  /\ quitSent' = quitSent + 1
  /\ sigQuit' = Notify(sigQuit)
  /\ UNCHANGED <<loop, sigTerm, sigReopen, shouldShutdown, exitCode,
                 termSent, reopenSent, termsDone>>
  /\ UNCHANGED <<readerVars, listenerVars, pipeVars, received>>
  /\ UNCHANGED outVars
  /\ UNCHANGED levelVars
  /\ UNCHANGED filterVars
  /\ UNCHANGED formatVars
  /\ UNCHANGED tagVars
  /\ UNCHANGED lockVars

SendReopen ==
  /\ reopenSent < MaxReopen
  /\ reopenSent' = reopenSent + 1
  /\ sigReopen' = Notify(sigReopen)
  /\ UNCHANGED <<loop, sigTerm, sigQuit, shouldShutdown, exitCode,
                 termSent, quitSent, termsDone>>
  /\ UNCHANGED <<readerVars, listenerVars, pipeVars, received>>
  /\ UNCHANGED outVars
  /\ UNCHANGED levelVars
  /\ UNCHANGED filterVars
  /\ UNCHANGED formatVars
  /\ UNCHANGED tagVars
  /\ UNCHANGED lockVars

\* ------------------------------------------------------------- Unilog.tick
\* `case u.shutdown <- struct{}{}:` can proceed only while the goroutine of
\* NewReader is blocked in its receive (the channel is unbuffered)
HandoffReady == lpc = "recv"

\* `u.shouldShutdown = true` in the send case, nothing in the default case
Armed_always(old, sent) == TRUE
Armed(old, sent) == old \/ sent

\* `if u.shouldShutdown { u.exit(1); return false }`
QuitExits_always(armed) == TRUE
QuitExits(armed) == armed

\* `case e := <-u.errs`: panic unless e is nil or io.EOF
TickErr ==
  /\ loop = "running"
  /\ errc # <<>>
  /\ errc' = Tail(errc)
  /\ loop' = IF Head(errc) # "nil" /\ Head(errc) # "EOF" THEN "panicked" ELSE "stopped"
  /\ UNCHANGED <<sigTerm, sigQuit, sigReopen, shouldShutdown, exitCode,
                 termSent, quitSent, reopenSent, termsDone>>
  /\ UNCHANGED <<bufsize, bbuf, berr, acc, ppc, ps, perr, linec, linecClosed>>
  /\ UNCHANGED <<readerVars, listenerVars, received>>
  /\ UNCHANGED outVars
  /\ UNCHANGED levelVars
  /\ UNCHANGED filterVars
  /\ UNCHANGED formatVars
  /\ UNCHANGED tagVars
  /\ UNCHANGED lockVars

\* `case <-u.sigReopen: u.reopen()`: the error reopen returns is dropped
TickReopen ==
  /\ loop = "running"
  /\ sigReopen > 0
  /\ sigReopen' = sigReopen - 1
  /\ \E ok \in IOResults :
       LET r == reopen(ok) IN
       /\ file' = r.file
       /\ jsonEncoder' = r.enc
       /\ opened' = r.opened
       /\ closed' = r.closed
       /\ events' = Observe(Event(IF r.err THEN "rotatefail" ELSE "rotate",
                                   0, "none", file, r.file,
                                   FALSE, FALSE, FALSE, FALSE))
  /\ UNCHANGED <<target, sentry, mail, stats, broken, at, count, disk, now,
                 observed>>
  /\ UNCHANGED <<loop, sigTerm, sigQuit, shouldShutdown, exitCode,
                 termSent, quitSent, reopenSent, termsDone>>
  /\ UNCHANGED <<readerVars, listenerVars, pipeVars, received>>
  /\ UNCHANGED levelVars
  /\ UNCHANGED filterVars
  /\ UNCHANGED formatVars
  /\ UNCHANGED tagVars
  /\ UNCHANGED lockVars

\* `case <-u.sigTerm:` with its inner select: the send if a receiver is
\* waiting, else the default case
TickTerm ==
  /\ loop = "running"
  /\ sigTerm > 0
  /\ sigTerm' = sigTerm - 1
  /\ termsDone' = termsDone + 1
  /\ shouldShutdown' = Armed(shouldShutdown, HandoffReady)
  /\ IF HandoffReady
     THEN lpc' = "got" /\ handoffs' = handoffs + 1
     ELSE UNCHANGED <<lpc, handoffs>>
  /\ UNCHANGED <<loop, sigQuit, sigReopen, exitCode, termSent, quitSent, reopenSent>>
  /\ UNCHANGED <<readerVars, shutdownClosed, pipeVars, received>>
  /\ UNCHANGED outVars
  /\ UNCHANGED levelVars
  /\ UNCHANGED filterVars
  /\ UNCHANGED formatVars
  /\ UNCHANGED tagVars
  /\ UNCHANGED lockVars

\* `case <-u.sigQuit:`
TickQuit ==
  /\ loop = "running"
  /\ sigQuit > 0
  /\ sigQuit' = sigQuit - 1
  /\ IF QuitExits(shouldShutdown)
     THEN exitCode' = 1 /\ loop' = "exited"
     ELSE UNCHANGED <<exitCode, loop>>
  /\ UNCHANGED <<sigTerm, sigReopen, shouldShutdown, termSent, quitSent,
                 reopenSent, termsDone>>
  /\ UNCHANGED <<readerVars, listenerVars, pipeVars, received>>
  /\ UNCHANGED outVars
  /\ UNCHANGED levelVars
  /\ UNCHANGED filterVars
  /\ UNCHANGED formatVars
  /\ UNCHANGED tagVars
  /\ UNCHANGED lockVars

\* `case line, ok := <-u.lines:` with ok: the line goes to logLine / logJSON
TickLine ==
  /\ loop = "running"
  /\ linec # <<>>
  /\ received' = Append(received, Head(linec))
  /\ linec' = Tail(linec)
  /\ logLine(Len(received) + 1)
  /\ UNCHANGED <<bufsize, bbuf, berr, acc, ppc, ps, perr, linecClosed, errc>>
  /\ UNCHANGED <<readerVars, listenerVars, loopVars>>
  /\ UNCHANGED levelVars
  /\ UNCHANGED filterVars
  /\ UNCHANGED formatVars
  /\ UNCHANGED tagVars
  /\ UNCHANGED lockVars

\* `case line, ok := <-u.lines:` with !ok
TickClosed ==
  /\ loop = "running"
  /\ linec = <<>>
  /\ linecClosed
  /\ loop' = "stopped"
  /\ UNCHANGED <<sigTerm, sigQuit, sigReopen, shouldShutdown, exitCode,
                 termSent, quitSent, reopenSent, termsDone>>
  /\ UNCHANGED <<readerVars, listenerVars, pipeVars, received>>
  /\ UNCHANGED outVars
  /\ UNCHANGED levelVars
  /\ UNCHANGED filterVars
  /\ UNCHANGED formatVars
  /\ UNCHANGED tagVars
  /\ UNCHANGED lockVars

\* ------------------------------------------------------------- Spec
\* Unilog.Main: the channels, readlines(os.Stdin, ...) on a Reader, then
\* run(); short inputs of one letter and '\n', a queue of capacity 1
Init ==
  /\ NewReader(SeqsUpTo({"a", NL}, MaxLoopInput), {"Reader"})
  /\ NewPipe({1})
  /\ NewUnilog
  /\ NewFormat({FALSE}, {<<>>})
  /\ NewOutput({"-"}, {"ok"}, {<<FALSE, FALSE, FALSE>>}, FALSE)
  /\ NewAusterity({NoFile})
  /\ NewFilter
  /\ NewTags({TRUE}, {<<>>})
  /\ NewMutex

Next ==
  \/ ReadStringFill
  \/ ReadStringFilled
  \/ ReadStringScan
  \/ SendLine
  \/ SendErr
  \/ CloseLinec
  \/ ListenerWait
  \/ ListenerSet
  \/ SendTerm
  \/ SendQuit
  \/ SendReopen
  \/ TickErr
  \/ TickReopen
  \/ TickTerm
  \/ TickQuit
  \/ TickLine
  \/ TickClosed

Spec == Init /\ [][Next]_vars

\* ------------------------------------------------------------- SpecDrain
\* stdin as an endless stream: `input` repeated for ever, pos being the
\* offset in the current repetition
Periods == {s \in SeqsUpTo(Bytes, MaxInput) : HasNL(s)}

\* the next n bytes of the endless stream
StreamBytes(n) == [i \in 1..n |-> input[((pos + i - 1) % Len(input)) + 1]]

\* one Read of the wrapped stdin by the bufio.Reader of readlines, with k
\* bytes free in its buffer; stdin returns some n >= 1 of the bytes asked
\* for; on the reader's EOF ReadString returns io.EOF and readlines leaves
\* its loop (the records themselves are not tracked here)
StreamRead ==
  /\ ppc = "scan"
  /\ \E k \in 1..MaxBuf :
       IF WrapperEOF(nl, shuttingDown)
       THEN /\ wrapperEOF' = TRUE
            /\ nl' = NlAfterEOF(nl)
            /\ ppc' = "close"
            /\ perr' = "EOF"
            /\ UNCHANGED pos
       ELSE \E n \in 1..InnerLen(impl, k, shuttingDown) :
              /\ pos' = (pos + n) % Len(input)
              /\ nl' = NextNl(nl, n, StreamBytes(n))
              /\ UNCHANGED <<wrapperEOF, ppc, perr>>
  /\ UNCHANGED <<impl, input, tail, shuttingDown, rpc, rlen, rsd, rnl,
                 res, out, calls, sdOut>>
  /\ UNCHANGED <<bufsize, bbuf, berr, acc, ps, linec, linecClosed, errc>>
  /\ UNCHANGED <<listenerVars, received, loopVars>>
  /\ UNCHANGED outVars
  /\ UNCHANGED levelVars
  /\ UNCHANGED filterVars
  /\ UNCHANGED formatVars
  /\ UNCHANGED tagVars
  /\ UNCHANGED lockVars

InitDrain ==
  /\ NewReader(Periods, Impls)
  /\ tail = "EOF"
  /\ NewPipe({1})
  /\ NewUnilog
  /\ NewFormat({FALSE}, {<<>>})
  /\ NewOutput({"-"}, {"ok"}, {<<FALSE, FALSE, FALSE>>}, FALSE)
  /\ NewAusterity({NoFile})
  /\ NewFilter
  /\ NewTags({TRUE}, {<<>>})
  /\ NewMutex

NextDrain ==
  \/ StreamRead
  \/ CloseLinec
  \/ TickClosed
  \/ ListenerWait
  \/ ListenerRecvClosed
  \/ ListenerSet
  \/ CloseShutdown

\* fair scheduling: the readlines goroutine, the shutdown listener and the
\* event loop run when they can
FairDrain ==
  /\ WF_vars(StreamRead)
  /\ WF_vars(CloseLinec)
  /\ WF_vars(TickClosed)
  /\ WF_vars(ListenerSet)

SpecDrain == InitDrain /\ [][NextDrain]_vars /\ FairDrain

\* ------------------------------------------------------------- SpecOut
\* the records "a\n" ... "a\n" on stdin
RecordsInput(k) == [i \in 1..(2 * k) |-> IF i % 2 = 1 THEN "a" ELSE NL]

\* readlines on a stream of complete records, one pass of its loop at a
\* time: ReadString returns the next record (each read of stdin returning
\* exactly one record) and the trimmed line is sent on linec
ReadlinesRecord ==
  /\ ppc = "scan"
  /\ bbuf = <<>> /\ acc = <<>>
  /\ pos < Len(input)
  /\ HasNL(SubSeq(input, pos + 1, Len(input)))
  /\ CanSend(linec, bufsize)
  /\ LET s == SubSeq(input, pos + 1, pos + FirstNL(SubSeq(input, pos + 1, Len(input))))
     IN /\ pos' = pos + Len(s)
        /\ out' = out \o s
        /\ nl' = TRUE
        /\ calls' = calls + 1
        /\ linec' = Append(linec, TrimRight(s))
  /\ UNCHANGED <<impl, input, tail, shuttingDown, rpc, rlen, rsd, rnl, res,
                 wrapperEOF, sdOut>>
  /\ UNCHANGED <<bufsize, bbuf, berr, acc, ppc, ps, perr, linecClosed, errc>>
  /\ UNCHANGED <<listenerVars, received, loopVars, outVars>>
  /\ UNCHANGED levelVars
  /\ UNCHANGED filterVars
  /\ UNCHANGED formatVars
  /\ UNCHANGED tagVars
  /\ UNCHANGED lockVars

\* the last pass: ReadString returns "", io.EOF and linec is closed
ReadlinesEOF ==
  /\ ppc = "scan"
  /\ bbuf = <<>> /\ acc = <<>>
  /\ pos = Len(input)
  /\ tail = "EOF"
  /\ calls' = calls + 1
  /\ perr' = "EOF"
  /\ linecClosed' = TRUE
  /\ ppc' = "done"
  /\ UNCHANGED <<impl, input, tail, pos, nl, shuttingDown, rpc, rlen, rsd, rnl,
                 res, out, wrapperEOF, sdOut>>
  /\ UNCHANGED <<bufsize, bbuf, berr, acc, ps, linec, errc>>
  /\ UNCHANGED <<listenerVars, received, loopVars, outVars>>
  /\ UNCHANGED levelVars
  /\ UNCHANGED filterVars
  /\ UNCHANGED formatVars
  /\ UNCHANGED tagVars
  /\ UNCHANGED lockVars

\* Unilog.Main on a target that is "-" or a path, on a disk that may or may
\* not fail, with the notifications configured or not
InitOut ==
  /\ NewReader({RecordsInput(MaxRecords)}, {"Reader"})
  /\ tail = "EOF"
  /\ NewPipe({1})
  /\ NewUnilog
  /\ NewFormat({FALSE}, {<<>>})
  /\ NewOutput({"-", "f"}, {"ok", "flaky"},
               {<<TRUE, TRUE, TRUE>>, <<FALSE, FALSE, FALSE>>}, TRUE)
  /\ NewAusterity({NoFile})
  /\ NewFilter
  /\ NewTags({TRUE}, {<<>>})
  /\ NewMutex

NextOut ==
  \/ ReadlinesRecord
  \/ ReadlinesEOF
  \/ SendReopen
  \/ TickReopen
  \/ TickLine
  \/ TickClosed
  \/ Advance

SpecOut == InitOut /\ [][NextOut]_vars

\* ------------------------------------------------------------- SpecLevel
\* `go clevels.SendSystemAusterityLevel()` and the filters reading the level
InitLevel ==
  /\ NewReader({<<>>}, {"Reader"})
  /\ tail = "EOF"
  /\ NewPipe({1})
  /\ NewUnilog
  /\ NewFormat({FALSE}, {<<>>})
  /\ NewOutput({"-"}, {"ok"}, {<<FALSE, FALSE, FALSE>>}, FALSE)
  /\ NewAusterity({NoFile} \cup {FileWith(c) : c \in Contents})
  /\ NewFilter
  /\ NewTags({TRUE}, {<<>>})
  /\ NewMutex

NextLevel ==
  \/ WriteAusterityFile
  \/ LoaderLoad
  \/ ApplyLevel
  \/ ServeLevel
  \/ ShouldShed

SpecLevel == InitLevel /\ [][NextLevel]_vars

\* the same under fair scheduling: the service's select takes a case that
\* stays ready, and a reader blocked in its receive is served when a value
\* is buffered
FairLevel ==
  /\ WF_vars(ServeLevel)
  /\ WF_vars(ApplyLevel)
  /\ WF_vars(ShouldShed)

SpecLevelFair == InitLevel /\ [][NextLevel]_vars /\ FairLevel

\* ------------------------------------------------------------- SpecFilter
\* AusterityFilter in front of the austerity service, the austerity file
\* being absent or holding any of the contents
InitFilter ==
  /\ NewReader({<<>>}, {"Reader"})
  /\ tail = "EOF"
  /\ NewPipe({1})
  /\ NewUnilog
  /\ NewFormat({FALSE}, {<<>>})
  /\ NewOutput({"-"}, {"ok"}, {<<FALSE, FALSE, FALSE>>}, FALSE)
  /\ NewAusterity({NoFile} \cup {FileWith(c) : c \in Contents})
  /\ NewFilter
  /\ NewTags({TRUE}, {<<>>})
  /\ NewMutex

NextFilter ==
  \/ LoaderLoad
  \/ ApplyLevel
  \/ ServeLevel
  \/ ArriveLine
  \/ FilterLine
  \/ ArriveJSON
  \/ FilterJSON
  \/ FilterReturn

SpecFilter == InitFilter /\ [][NextFilter]_vars

\* ------------------------------------------------------------- format
\* Text is a sequence of characters.  A line on stdin is either plain text
\* over Alphabet or the JSON object {"message":"..."} with such a text.
Alphabet == {"e", "i", "s"}
Texts == UNION {[1..n -> Alphabet] : n \in 1..MaxLine}

ObjectOpen == <<"{", "\"", "m", "e", "s", "s", "a", "g", "e", "\"", ":", "\"">>
ObjectClose == <<"\"", "}">>
ObjectText(msg) == ObjectOpen \o msg \o ObjectClose

RawLines == Texts \cup {ObjectText(msg) : msg \in Texts}

\* encjson.Unmarshal(line, &record): the decoded mapping, or an error when
\* the line is not a JSON object
Unmarshal_anything(line) == [err |-> FALSE, rec |-> [message |-> line]]
Unmarshal(line) ==
  LET n == Len(line) - Len(ObjectOpen) - Len(ObjectClose)
      msg == SubSeq(line, Len(ObjectOpen) + 1, Len(ObjectOpen) + n)
  IN IF /\ n >= 0
        /\ SubSeq(line, 1, Len(ObjectOpen)) = ObjectOpen
        /\ SubSeq(line, Len(line) - Len(ObjectClose) + 1, Len(line)) = ObjectClose
        /\ \A i \in 1..n : msg[i] \notin {"\"", "\\"}
     THEN [err |-> FALSE, rec |-> [message |-> msg]]
     ELSE [err |-> TRUE, rec |-> NoRecord]

\* strings.Replace(s, "e", "ee", n)
RECURSIVE DoubleE(_, _)
DoubleE(s, n) ==
  IF s = <<>> \/ n = 0 THEN s
  ELSE IF Head(s) = "e" THEN <<"e", "e">> \o DoubleE(Tail(s), n - 1)
  ELSE <<Head(s)>> \o DoubleE(Tail(s), n)

\* strings.Replace(s, "is", "ain't", -1)
RECURSIVE IsToAint(_)
IsToAint(s) ==
  IF Len(s) < 2 THEN s
  ELSE IF s[1] = "i" /\ s[2] = "s"
  THEN <<"a", "i", "n", "'", "t">> \o IsToAint(SubSeq(s, 3, Len(s)))
  ELSE <<s[1]>> \o IsToAint(Tail(s))

\* TimePrefixFilter{Format: "e"}: fmt.Sprintf("[%s] %s", now.Format("e"), s)
TimePrefix(s) == <<"[", "e", "]", " ">> \o s

\* the filters a Unilog can be configured with; "nil" is a nil entry
FilterKinds == {"nil", "doubleE", "isToAint", "timePrefix"}
FilterLists == UNION {[1..n -> FilterKinds] : n \in 0..MaxFilters}

\* filter.FilterLine(line)
FilterLineOf(f, s) ==
  CASE f = "doubleE" -> DoubleE(s, 2)
    [] f = "isToAint" -> IsToAint(s)
    [] f = "timePrefix" -> TimePrefix(s)

\* filter.FilterJSON(&line): the test filters rewrite the "message" field,
\* TimePrefixFilter leaves the record alone
FilterJSONOf(f, rec) ==
  CASE f = "doubleE" -> [rec EXCEPT !["message"] = DoubleE(@, 2)]
    [] f = "isToAint" -> [rec EXCEPT !["message"] = IsToAint(@)]
    [] f = "timePrefix" -> rec

\* `for _, filter := range u.Filters { if filter != nil { line =
\* filter.FilterLine(line) } }` from the i-th filter on
RECURSIVE FilterLines_reversed(_, _, _)
FilterLines_reversed(fs, i, s) ==
  IF i > Len(fs) THEN s
  ELSE LET t == FilterLines_reversed(fs, i + 1, s)
       IN IF fs[i] = "nil" THEN t ELSE FilterLineOf(fs[i], t)
RECURSIVE FilterLines(_, _, _)
FilterLines(fs, i, s) ==
  IF i > Len(fs) THEN s
  ELSE FilterLines(fs, i + 1, IF fs[i] = "nil" THEN s ELSE FilterLineOf(fs[i], s))

\* `for _, filter := range u.Filters { if filter != nil {
\* filter.FilterJSON(&line) } }` from the i-th filter on
RECURSIVE FilterJSONs(_, _, _)
FilterJSONs(fs, i, rec) ==
  IF i > Len(fs) THEN rec
  ELSE FilterJSONs(fs, i + 1, IF fs[i] = "nil" THEN rec ELSE FilterJSONOf(fs[i], rec))

\* Unilog.format
format(line) == FilterLines(Filters, 1, line) \o <<NL>>

\* the outcome of logLine / logJSON, read off u.file and u.b.broken
Outcome(f, b) ==
  IF ~b THEN "written" ELSE IF f = NilFile THEN "reopen_file" ELSE "write_to_log"

\* Unilog.logLine(line): format, then open / write / handleError
LogLineText(line) ==
  /\ logLine(Len(received) + 1)
  /\ logged' = [path |-> "text", line |-> line, data |-> format(line),
                rec |-> NoRecord, outcome |-> Outcome(file', broken'),
                n |-> Len(received) + 1]

\* Unilog.logJSON(jsonLine): a line that does not decode goes to logLine;
\* otherwise the filters' FilterJSON, then open / Encode / handleError
LogJSON(jsonLine) ==
  LET r == Unmarshal(jsonLine) IN
  IF r.err THEN LogLineText(jsonLine)
  ELSE /\ logLine(Len(received) + 1)
       /\ logged' = [path |-> "json", line |-> jsonLine, data |-> <<>>,
                     rec |-> FilterJSONs(Filters, 1, r.rec),
                     outcome |-> Outcome(file', broken'),
                     n |-> Len(received) + 1]

\* `e = u.jsonEncoder.Encode(line)` in logJSON, reached when the line
\* decodes and a handle is there: on a nil encoder it is a nil pointer
\* dereference, and the process dies
EncodePanics(jsonLine) ==
  /\ JSON /\ ~Unmarshal(jsonLine).err
  /\ file' # NilFile /\ jsonEncoder' = NilFile

\* `case line, ok := <-u.lines:` with ok, `if !u.JSON { u.logLine(line) }
\* else { u.logJSON(line) }`
TickLog ==
  /\ loop = "running"
  /\ linec # <<>>
  /\ received' = Append(received, Head(linec))
  /\ linec' = Tail(linec)
  /\ IF ~JSON THEN LogLineText(Head(linec)) ELSE LogJSON(Head(linec))
  /\ loop' = IF EncodePanics(Head(linec)) THEN "panicked" ELSE loop
  /\ UNCHANGED <<JSON, Filters>>
  /\ UNCHANGED tagVars
  /\ UNCHANGED lockVars
  /\ UNCHANGED <<bufsize, bbuf, berr, acc, ppc, ps, perr, linecClosed, errc>>
  /\ UNCHANGED <<sigTerm, sigQuit, sigReopen, shouldShutdown, exitCode,
                 termSent, quitSent, reopenSent, termsDone>>
  /\ UNCHANGED <<readerVars, listenerVars>>
  /\ UNCHANGED levelVars
  /\ UNCHANGED filterVars

\* the line `line` MaxRecords times on stdin
RECURSIVE Repeat(_, _)
Repeat(s, k) == IF k = 0 THEN <<>> ELSE s \o Repeat(s, k - 1)

\* Unilog.Main in text or JSON mode, with a list of filters, on a path on a
\* disk that may fail
InitFormat ==
  /\ NewReader({Repeat(line \o <<NL>>, MaxRecords) : line \in RawLines}, {"Reader"})
  /\ tail = "EOF"
  /\ NewPipe({1})
  /\ NewUnilog
  /\ NewFormat(BOOLEAN, FilterLists)
  /\ NewOutput({"f"}, {"flaky"}, {<<FALSE, FALSE, FALSE>>}, FALSE)
  /\ NewAusterity({NoFile})
  /\ NewFilter
  /\ NewTags({TRUE}, {<<>>})
  /\ NewMutex

NextFormat ==
  \/ ReadlinesRecord
  \/ ReadlinesEOF
  \/ TickLog
  \/ TickClosed

SpecFormat == InitFormat /\ [][NextFormat]_vars

\* ------------------------------------------------------------- SpecJSON
\* Unilog.Main in JSON mode on "-" or on a path, on a disk that may fail,
\* with rotate signals
InitJSON ==
  /\ NewReader({Repeat(line \o <<NL>>, MaxRecords) : line \in RawLines}, {"Reader"})
  /\ tail = "EOF"
  /\ NewPipe({1})
  /\ NewUnilog
  /\ NewFormat({TRUE}, {<<>>})
  /\ NewOutput({"-", "f"}, {"ok", "flaky"}, {<<FALSE, FALSE, FALSE>>}, FALSE)
  /\ NewAusterity({NoFile})
  /\ NewFilter
  /\ NewTags({TRUE}, {<<>>})
  /\ NewMutex

NextJSON ==
  \/ ReadlinesRecord
  \/ ReadlinesEOF
  \/ SendReopen
  \/ TickReopen
  \/ TickLog
  \/ TickClosed

SpecJSON == InitJSON /\ [][NextJSON]_vars

\* ============================================================= claims
\* ------------------------------------------------------------- reader

\* C1: the reader reports its own end-of-stream (0, EOF, inner stream not
\* called) only when shutdown has been observed and the last byte it returned
\* was '\n'; so all bytes returned before such an EOF end with '\n'.
C1_DrainOnlyAtTerminator ==
  /\ wrapperEOF => shuttingDown /\ LastIsNL(out)
  /\ res.by = "wrapper" =>
       /\ res.sd /\ res.nl0
       /\ res.n = 0 /\ res.err = "EOF" /\ res.ilen = 0
       /\ out = SubSeq(input, 1, pos)

\* a drain that cut the stream off between two records
C1_Witness ==
  /\ res.by = "wrapper"
  /\ Len(out) >= 2
  /\ pos < Len(input)

C3_OneByteAtATime ==
  /\ (res.by = "inner" /\ res.sd) => res.n <= 1
  /\ sdOut >= 0 =>
       \A i \in (sdOut + 1)..Len(out) : out[i] = NL => i = Len(out)
  /\ (rpc = "idle" /\ res.by = "inner" /\ res.sd) =>
       \A i \in (sdOut + 1)..(Len(out) - res.n) : out[i] # NL

\* C4: a Read made while shuttingDown is false calls the inner stream with
\* the caller's buffer and returns its byte count and error unchanged,
\* whatever nl is: the bytes returned are exactly the bytes of the stream.
C4_Passthrough ==
  (~shuttingDown /\ res.by # "none") =>
     /\ res.by = "inner"
     /\ res.ilen = res.blen
     /\ <<res.n, res.err>> = res.inner
     /\ res.data = SubSeq(input, pos - res.n + 1, pos)
     /\ out = SubSeq(input, 1, pos)
     /\ ~wrapperEOF

\* a pass-through Read begun right after a '\n', and one that returned an
\* error of the inner stream
C4_Witness ==
  /\ ~shuttingDown
  /\ res.by = "inner"
  /\ \/ res.nl0 /\ res.n >= 2
     \/ res.nl0 /\ res.err = "EIO"

\* C5: shuttingDown never goes back to false; once the reader has reported
\* its own EOF every later Read returns (0, EOF), whatever the buffer size,
\* and the inner stream is not called again.
C5_ShutdownPermanent ==
  [][/\ shuttingDown => shuttingDown'
     /\ wrapperEOF =>
          /\ wrapperEOF' /\ pos' = pos /\ out' = out /\ rpc' = "idle"
          /\ calls' = calls + 1 =>
               res'.by = "wrapper" /\ res'.n = 0 /\ res'.err = "EOF"]_vars

\* a second reader-made EOF, for a buffer of another size than the first
C5_Witness ==
  /\ res.by = "wrapper" /\ res.rep
  /\ res.blen = MaxBuf
  /\ calls >= 3

\* ------------------------------------------------------------- pipeline

\* the input split on '\n', terminators stripped, a last line without
\* terminator included
RECURSIVE SplitLines(_)
SplitLines(s) ==
  IF s = <<>> THEN <<>>
  ELSE IF HasNL(s)
  THEN <<SubSeq(s, 1, FirstNL(s) - 1)>> \o SplitLines(SubSeq(s, FirstNL(s) + 1, Len(s)))
  ELSE <<s>>

IsPrefix(s, t) == Len(s) <= Len(t) /\ s = SubSeq(t, 1, Len(s))

\* a step of the readlines goroutine or of its consumer
PipeStep ==
  \/ ReadStringFill \/ ReadStringFilled \/ ReadStringScan
  \/ SendLine \/ SendErr \/ CloseLinec
  \/ RangeRecv \/ RangeEnd

\* C6: with no shutdown triggered, for every input and every queue capacity
\* the records received from the queue are the lines of the input, in order,
\* each once, a last unterminated line included; the queue never holds
\* anything else, it is closed only after the last record was sent, and
\* until the consumer has seen it closed the pipeline can always take a step.
C6_LinesInOrder ==
  ~shutdownClosed =>
     /\ IsPrefix(received \o linec, SplitLines(input))
     /\ Len(linec) <= bufsize
     /\ linecClosed => received \o linec = SplitLines(input)
     /\ loop = "stopped" => received = SplitLines(input) /\ linecClosed
     /\ loop = "running" => ENABLED PipeStep

\* "a\nb\nc" read to its end through a queue of capacity 1
C6_Witness ==
  /\ ~shutdownClosed
  /\ loop = "stopped"
  /\ input = Scenario /\ tail = "EOF"
  /\ bufsize = 1
  /\ received = <<<<"a">>, <<"b">>, <<"c">>>>

C8_TwoPhaseExit ==
  /\ [][(sigQuit' = sigQuit - 1) =>
          IF shouldShutdown
          THEN exitCode' = 1 /\ loop' = "exited"
          ELSE /\ loop' = "running" /\ exitCode' = exitCode
               /\ UNCHANGED <<readerVars, listenerVars, pipeVars, received,
                              sigTerm, sigReopen, shouldShutdown,
                              termSent, quitSent, reopenSent, termsDone>>]_vars
  /\ []((exitCode # -1 \/ loop = "exited") =>
          exitCode = 1 /\ loop = "exited" /\ handoffs >= 1 /\ shouldShutdown)

\* a first force-quit was ignored, a second one, after arming, called exit
C8_Witness ==
  /\ loop = "exited" /\ exitCode = 1
  /\ quitSent = 2 /\ sigQuit = 0

\* C9: a terminate signal makes tick try the handoff without blocking;
\* shouldShutdown becomes true exactly when the handoff succeeds and keeps
\* its value when no receiver waits; either way the loop goes on and exit is
\* not called.
C9_TermHandoff ==
  /\ [][(termsDone' = termsDone + 1) =>
          /\ shouldShutdown' = (shouldShutdown \/ lpc = "recv")
          /\ handoffs' = handoffs + (IF lpc = "recv" THEN 1 ELSE 0)
          /\ (lpc = "recv" => lpc' = "got")
          /\ loop' = "running"
          /\ exitCode' = exitCode]_vars
  /\ [](shouldShutdown <=> handoffs >= 1)
  /\ []((loop = "running" /\ sigTerm > 0) => ENABLED TickTerm)

\* two terminate signals processed, one handoff failed and one succeeded
C9_Witness ==
  /\ termsDone = 2
  /\ handoffs = 1 /\ shouldShutdown
  /\ loop = "running" /\ exitCode = -1

\* C10 as claimed: of two terminate signals the first arms force-quit and
\* tells the reader to drain, the second changes nothing, whatever the
\* goroutine of NewReader is doing.
C10_TermIdempotent ==
  [][(termsDone' = termsDone + 1) =>
       IF termsDone = 0
       THEN shouldShutdown' /\ lpc' = "got"
       ELSE shouldShutdown' = shouldShutdown /\ lpc' = lpc]_vars

\* C11: a read error other than end-of-stream is always surfaced: the loop
\* never stops normally (tick returning false) while that error is still
\* sitting unreceived on the error channel.
C11_FatalErrorSurfaced ==
  loop = "stopped" => \A i \in 1..Len(errc) : errc[i] \in {"nil", "EOF"}

\* the entry that the step appends to the observation, if it appends one
Logged == Len(events') = Len(events) + 1
NewEvent == events'[Len(events')]

\* C12: a failed open or write is reported once, for that record, as
\* "reopen_file" (no handle was open and the open failed) or "write_to_log"
\* (a handle was there and the write failed), and the loop keeps running;
\* no record is ever handled twice, so a failing record is never written
\* later; a record that finds no handle open makes a new open attempt, and
\* nothing is ever written to a nil handle.
C12_StepOfRecord ==
  (received' # received) =>
    /\ Logged
    /\ NewEvent.rec = Len(received')
    /\ NewEvent.kind \in {"write", "fail"}
    /\ NewEvent.kind = "fail" =>
         /\ loop' = "running"
         /\ NewEvent.action \in {"reopen_file", "write_to_log"}
         /\ NewEvent.action = "reopen_file" <=> (file = NilFile /\ file' = NilFile)
         /\ NewEvent.action = "write_to_log" => file' # NilFile
    /\ NewEvent.kind = "write" => NewEvent.h = file' /\ file' # NilFile
    /\ file = NilFile =>
         \/ opened' = opened + 1 /\ file' = Handle(opened')
         \/ NewEvent.kind = "fail" /\ NewEvent.action = "reopen_file"

C12_OncePerRecord ==
  \A i, j \in 1..Len(events) :
    (i < j /\ events[i].rec > 0 /\ events[j].rec > 0) => events[i].rec < events[j].rec

C12_RecoverableFailure == [](C12_OncePerRecord) /\ [][C12_StepOfRecord]_vars

\* a record failed on the open, the next failed on the write of a freshly
\* opened handle, and a third one was written
C12_Witness ==
  /\ loop = "running"
  /\ Len(events) >= 3
  /\ \E i \in 1..(Len(events) - 2) :
       /\ events[i].kind = "fail" /\ events[i].action = "reopen_file"
       /\ events[i + 1].kind = "fail" /\ events[i + 1].action = "write_to_log"
       /\ events[i + 1].old = NilFile
       /\ events[i + 2].kind = "write" /\ events[i + 2].rec = events[i].rec + 2

LastEventIs(kind) == events # <<>> /\ events[Len(events)].kind = kind

\* C13 as stated: the record whose write attempt meets a failed reopen is
\* deferred, so once a later open has succeeded and a record has been
\* written, that record has been written as well.
C13_DeferredUntilReopen ==
  \A i, j \in 1..Len(events) :
    (/\ i < j
     /\ events[i].kind = "fail" /\ events[i].action = "reopen_file"
     /\ events[j].kind = "write")
    => \E k \in 1..j : events[k].kind = "write" /\ events[k].rec = events[i].rec

\* C13, amended: a reopen that fails on a rotate signal leaves the loop
\* running and u.file nil, and is not reported by itself; the next record
\* makes a new open attempt: if that fails too the failure is reported as
\* "reopen_file" and the record is dropped, never to be written; otherwise
\* the record goes to the handle just opened.
C13_RotateStep ==
  /\ (Logged /\ NewEvent.kind = "rotatefail") =>
       /\ loop' = "running"
       /\ file' = NilFile
       /\ UNCHANGED <<broken, at, count>>
  /\ (received' # received /\ LastEventIs("rotatefail")) =>
       \/ /\ NewEvent.kind = "fail" /\ NewEvent.action = "reopen_file"
          /\ NewEvent.rec = Len(received')
          /\ file' = NilFile /\ loop' = "running"
       \/ /\ NewEvent.kind \in {"write", "fail"}
          /\ NewEvent.action # "reopen_file"
          /\ file' = Handle(opened + 1)

C13_FailedNeverWritten ==
  \A i, j \in 1..Len(events) :
    (events[i].kind = "fail" /\ events[j].kind = "write") => events[i].rec # events[j].rec

C13_ReopenFailureDrops == [](C13_FailedNeverWritten) /\ [][C13_RotateStep]_vars

\* the reopen of a rotate signal failed, the next record met a second
\* failed open and was dropped, and the record after it was written
C13_Witness ==
  \E i \in 1..(Len(events) - 2) :
    /\ events[i].kind = "rotatefail"
    /\ events[i + 1].kind = "fail" /\ events[i + 1].action = "reopen_file"
    /\ events[i + 2].kind = "write" /\ events[i + 2].rec = events[i + 1].rec + 1
    /\ events[i + 2].h.id > events[i].n

IsRotate(e) == e.kind \in {"rotate", "rotatefail"}

\* C14: once tick has processed a rotate signal (target other than "-"),
\* whether its reopen succeeded or failed, the handle that was open before
\* is closed, the handle in use is never a closed one, and every later
\* write goes to a handle that OpenFile returned after the signal.
C14_RotationTakesEffect ==
  target # "-" =>
    /\ file.k = "file" => file.id \notin closed
    /\ \A i \in 1..Len(events) :
         IsRotate(events[i]) =>
           /\ events[i].old.k = "file" => events[i].old.id \in closed
           /\ events[i].old.k # "stdout"
           /\ \A j \in (i + 1)..Len(events) :
                events[j].kind = "write" =>
                  /\ events[j].h.k = "file"
                  /\ events[j].h.id > events[i].n
                  /\ events[j].h # events[i].old

\* a rotate signal was processed while a handle was open, its reopen
\* failed, and a later record was written
C14_Witness ==
  /\ target # "-"
  /\ \E i \in 1..Len(events) :
       /\ events[i].kind = "rotatefail"
       /\ events[i].old.k = "file"
       /\ \E j \in (i + 1)..Len(events) : events[j].kind = "write"
       /\ \E j \in 1..(i - 1) : events[j].kind = "write" /\ events[j].h = events[i].old

\* C15: with target "-", whatever rotate signals and records are processed,
\* no handle is ever closed or opened, no reopen fails, and the output
\* handle is standard output.
C15_StdoutNeverReopened ==
  target = "-" =>
    /\ file = Stdout
    /\ closed = {}
    /\ opened = 0
    /\ \A i \in 1..Len(events) :
         /\ events[i].kind # "rotatefail"
         /\ events[i].action # "reopen_file"
         /\ events[i].old = Stdout /\ events[i].h = Stdout

\* on a failing disk: a rotate signal was processed and records were
\* written and failed to be written on standard output
C15_Witness ==
  /\ target = "-" /\ disk = "flaky"
  /\ \E i, j, k \in 1..Len(events) :
       /\ events[i].kind = "rotate"
       /\ i < j /\ events[j].kind = "write"
       /\ events[k].kind = "fail"

\* the failures among events[i..j], and those of them that satisfy a flag
Fails(i, j) == {m \in i..j : events[m].kind = "fail"}
Reports(i, j) == {m \in Fails(i, j) : events[m].report}
Emails(i, j) == {m \in Fails(i, j) : events[m].email}
Metrics(i, j) == {m \in Fails(i, j) : events[m].metric}

\* events[i] is the first failure after a success or after the start, and
\* no record is written from there up to events[j]
IsRun(i, j) ==
  /\ i <= j
  /\ events[i].kind = "fail" /\ events[j].kind = "fail"
  /\ \A m \in i..j : events[m].kind # "write"
  /\ \A m \in 1..(i - 1) :
       events[m].kind = "fail" => \E w \in (m + 1)..(i - 1) : events[w].kind = "write"

\* C16: a run of k consecutive failures with no successful write in
\* between, the last at most one hour after the first, produces exactly one
\* exception report (if a DSN is set), exactly one email (if sender and
\* recipient are set) and exactly k counter emissions (if Stats is set).
C16_Throttling ==
  \A i, j \in 1..Len(events) :
    (IsRun(i, j) /\ events[j].t - events[i].t <= Hour) =>
      /\ Cardinality(Reports(i, j)) = IF sentry THEN 1 ELSE 0
      /\ Cardinality(Emails(i, j)) = IF mail THEN 1 ELSE 0
      /\ Cardinality(Metrics(i, j)) = IF stats THEN Cardinality(Fails(i, j)) ELSE 0
      /\ events[i].report = sentry /\ events[i].email = mail

\* three failures in a row, the last a full hour after the first, with
\* everything configured: one report, one email, three counter emissions
C16_Witness ==
  /\ sentry /\ mail /\ stats
  /\ \E i, j \in 1..Len(events) :
       /\ IsRun(i, j)
       /\ events[j].t - events[i].t = Hour
       /\ Cardinality(Fails(i, j)) >= 3
       /\ Cardinality(Reports(i, j)) = 1
       /\ Cardinality(Emails(i, j)) = 1
       /\ Cardinality(Metrics(i, j)) >= 3

\* the last record handled so far was written
LastRecordWritten ==
  \E i \in 1..Len(events) :
    /\ events[i].kind = "write"
    /\ \A j \in (i + 1)..Len(events) : events[j].kind # "fail"

\* C17: a failure starts a new episode (u.b.at set to now, the count
\* restarted, report and email sent if configured) exactly when u.b.broken
\* is false or the episode began more than one hour ago; any other failure
\* only increments the count; every failure emits the metric (if Stats is
\* set); a successful write clears u.b.broken, so the first failure after
\* a success starts a new episode.
C17_FailureStep ==
  /\ (Logged /\ NewEvent.kind = "fail") =>
       /\ NewEvent.ep <=> (~broken \/ now - at > Hour)
       /\ NewEvent.ep =>
            /\ at' = now /\ count' = 1
            /\ NewEvent.report = sentry /\ NewEvent.email = mail
       /\ ~NewEvent.ep =>
            /\ at' = at /\ count' = count + 1
            /\ ~NewEvent.report /\ ~NewEvent.email
       /\ NewEvent.metric = stats
       /\ broken'
       /\ LastRecordWritten => NewEvent.ep
  /\ (Logged /\ NewEvent.kind = "write") => ~broken'

C17_Episodes ==
  /\ [](LastRecordWritten => ~broken)
  /\ [](broken => count >= 1)
  /\ [][C17_FailureStep]_vars

\* a failure inside an episode, then one more than an hour after its start
\* that opens a second episode, with no success in between
C17_Witness ==
  /\ sentry /\ mail
  /\ \E i \in 1..(Len(events) - 2) :
       /\ events[i].kind = "fail" /\ events[i].ep
       /\ events[i + 1].kind = "fail" /\ ~events[i + 1].ep
       /\ events[i + 2].kind = "fail" /\ events[i + 2].ep /\ events[i + 2].email
       /\ events[i + 2].t - events[i].t > Hour

\* C18: after a failure email unilog stays silent for an hour: any two
\* failure emails are at least one hour apart.
C18_EmailOncePerHour ==
  \A i, j \in 1..Len(events) :
    (i < j /\ events[i].email /\ events[j].email) => events[j].t - events[i].t >= Hour

LoadOk(r) == ~r.err

\* C19: the cached level starts at Sheddable and is only ever replaced by
\* the level of a successful load, in the order of the loads, so a failed
\* load (file missing or unparseable) never changes it; every value read
\* from SystemAusterityLevel is Sheddable or the level of a successful load
\* made before the read; if every load failed, every read is Sheddable.
C19_FailsOpen ==
  LET good == SelectSeq(loads, LoadOk) IN
  /\ Len(applied) <= Len(good)
  /\ \A i \in 1..Len(applied) : applied[i] = good[i].l
  /\ currentLevel = IF applied = <<>> THEN Sheddable ELSE applied[Len(applied)]
  /\ \A k \in 1..Len(reads) :
       \/ reads[k].v = Sheddable
       \/ \E i \in 1..reads[k].nloads : ~loads[i].err /\ loads[i].l = reads[k].v
  /\ (\A i \in 1..Len(loads) : loads[i].err) =>
       /\ currentLevel = Sheddable
       /\ \A k \in 1..Len(reads) : reads[k].v = Sheddable

\* Critical was loaded and applied, the next load failed, and a read made
\* after the failed load still returned Critical
C19_Witness ==
  /\ Len(loads) = 2
  /\ ~loads[1].err /\ loads[1].l = Critical
  /\ loads[2].err
  /\ currentLevel = Critical
  /\ \E k \in 1..Len(reads) : reads[k].nloads = 2 /\ reads[k].v = Critical

\* the level of the latest successful load among the first n loads
RECURSIVE LatestLoaded(_)
LatestLoaded(n) ==
  IF n = 0 THEN Sheddable
  ELSE IF ~loads[n].err THEN loads[n].l ELSE LatestLoaded(n - 1)

\* C20 as stated: every read returns the level of the latest successful
\* load completed before the read, or Sheddable if there is none.
C20_ReadsLatestLoad ==
  \A k \in 1..Len(reads) : reads[k].v = LatestLoaded(reads[k].nloads)

\* the cached level after the first n updates
LevelAt(n) == IF n = 0 THEN Sheddable ELSE applied[n]

\* the reads up to the k-th that were made after update n was applied
ReadsSince(n, k) == {j \in 1..k : reads[j].napplied >= n}

\* C20, amended: every read returns the level the cache held when the value
\* was put into the buffer of SystemAusterityLevel, which is the level of
\* an update applied before the read; and once the cache has taken a new
\* level, at most AusterityBuffer further reads return an older one.
C20_ReadsLagBounded ==
  \A k \in 1..Len(reads) :
    /\ reads[k].ver <= reads[k].napplied
    /\ reads[k].v = LevelAt(reads[k].ver)
    /\ reads[k].ver < reads[k].napplied =>
         Cardinality(ReadsSince(reads[k].ver + 1, k)) <= AusterityBuffer

\* after Critical was applied, AusterityBuffer reads still returned
\* Sheddable and the read after them returned Critical
C20_Witness ==
  /\ applied = <<Critical>>
  /\ Len(reads) > AusterityBuffer
  /\ LET k == Len(reads) IN
     /\ reads[k].ver = 1 /\ reads[k].v = Critical
     /\ \A j \in (k - AusterityBuffer)..(k - 1) :
          reads[j].ver = 0 /\ reads[j].napplied = 1 /\ reads[j].v = Sheddable

\* the reads made after update m was applied, and those of them that
\* return a value older than update m
ReadsAfter(m) == {j \in 1..Len(reads) : reads[j].napplied >= m}
StaleAfter(m) == {j \in ReadsAfter(m) : reads[j].ver < m}

\* C21: after the cached level changes (update m), at most AusterityBuffer
\* later reads return a value older than the update; the older values all
\* come first, and every read after them returns the level of update m
\* until the next update is applied.
C21_BoundedStaleness ==
  \A m \in 1..Len(applied) :
    /\ Cardinality(StaleAfter(m)) <= AusterityBuffer
    /\ \A j, k \in ReadsAfter(m) :
         (j < k /\ reads[j].ver >= m) => reads[k].ver >= m
    /\ \A k \in ReadsAfter(m) :
         (reads[k].ver >= m /\ reads[k].napplied = m) => reads[k].v = applied[m]

\* two updates: a read after the second still returned the level of the
\* first, and the last read returned the level of the second
C21_Witness ==
  /\ applied = <<SheddablePlus, Critical>>
  /\ \E j \in 1..Len(reads) :
       reads[j].napplied = 2 /\ reads[j].ver = 1 /\ reads[j].v = SheddablePlus
  /\ reads # <<>>
  /\ reads[Len(reads)].ver = 2 /\ reads[Len(reads)].v = Critical

\* ------------------------------------------------------------- filters

\* C22: while the austerity level delivered to AusterityFilter is Sheddable
\* the record is never shed and comes out unchanged, whatever its criticality
\* and the random draw; and as long as every load of the austerity file has
\* failed (file absent or unparseable) Sheddable is the only level delivered.
C22_DefaultPreservesAll ==
  /\ fres.mode # "none" /\ fres.a = Sheddable =>
       ~fres.shed /\ fres.out = fres.line /\ fres.outrec = fres.rec
  /\ (\A i \in 1..Len(loads) : loads[i].err) /\ fres.mode # "none" =>
       fres.a = Sheddable /\ ~fres.shed

\* a line of the lowest criticality passes with the highest draw after a load
\* of the austerity file has failed
C22_Witness ==
  /\ Len(loads) > 0
  /\ \A i \in 1..Len(loads) : loads[i].err
  /\ fres.mode = "text"
  /\ fres.crit = Sheddable
  /\ fres.d = Scale - 1
  /\ fres.out = fres.line

\* the documented keep rate for a record diff levels below the austerity
\* level, in units of 1/Scale: 0.1, 0.01, 0.001
KeepRate(diff) ==
  CASE diff = 1 -> Scale \div 10
    [] diff = 2 -> Scale \div 100
    [] diff = 3 -> Scale \div 1000

HasMarker(line) == \E i \in 1..Len(line) : line[i].k = "marker"
HasUpperMarker(line) == \E i \in 1..Len(line) : line[i].k = "marker" /\ line[i].u

\* the line carries a clevel tag in one of the two encodings
HasTag(line) == \E i \in 1..Len(line) : line[i].k \in {"bracket", "inline"}

\* C24: a text record that carries the canonical-line marker is never
\* replaced by the shed sentinel, at any austerity level and for any draw.
C24_CanonicalNeverShed ==
  fres.mode = "text" /\ HasMarker(fres.line) =>
    ~fres.shed /\ fres.out = fres.line

\* the same for the marker written in upper case
C24_UpperCaseNeverShed ==
  fres.mode = "text" /\ HasUpperMarker(fres.line) =>
    ~fres.shed /\ fres.out = fres.line

\* C25: Criticality is CriticalPlus for every line that carries the
\* canonical-line marker, also when the line carries a clevel tag that names
\* a lower level, in either encoding.
C25_CanonicalPrecedence ==
  fres.mode = "text" /\ HasMarker(fres.line) => fres.crit = CriticalPlus

\* the same for the marker written in upper case
C25_UpperCasePrecedence ==
  fres.mode = "text" /\ HasUpperMarker(fres.line) => fres.crit = CriticalPlus

\* C26: the canonical-line marker is matched case-insensitively: a line
\* with the marker in lower case and no clevel tag is CriticalPlus.
C26_MarkerAnyCase ==
  fres.mode = "text" /\ HasMarker(fres.line) /\ ~HasTag(fres.line) =>
    fres.crit = CriticalPlus

\* the positions of the tags of one form: "[clevel: X]" anywhere,
\* " clevel=X" after white space
TagsAt(form, line) ==
  {i \in 1..Len(line) : line[i].k = form /\ (form = "inline" => i > 1)}

Parses(line, i) == ~ParseLevel(line[i].w).err
Leftmost(S) == CHOOSE i \in S : \A j \in S : i <= j

\* the level of the first tag that parses, bracketed tags before inline ones
FirstParsingTag(line) ==
  LET pb == {i \in TagsAt("bracket", line) : Parses(line, i)}
      pi == {i \in TagsAt("inline", line) : Parses(line, i)}
  IN IF pb # {} THEN ParseLevel(line[Leftmost(pb)].w).l
     ELSE IF pi # {} THEN ParseLevel(line[Leftmost(pi)].w).l
     ELSE SheddablePlus

\* the level of the leftmost bracketed tag if it parses, else of the
\* leftmost inline tag if it parses, else the default
LeftmostTagOfEachForm(line) ==
  LET b == TagsAt("bracket", line)
      n == TagsAt("inline", line)
  IN IF b # {} /\ Parses(line, Leftmost(b)) THEN ParseLevel(line[Leftmost(b)].w).l
     ELSE IF n # {} /\ Parses(line, Leftmost(n)) THEN ParseLevel(line[Leftmost(n)].w).l
     ELSE SheddablePlus

\* C27: the criticality of a text line without the canonical marker is the
\* level of the first tag that parses, bracketed form before inline form,
\* and SheddablePlus when there is no tag or none parses.
C27_FirstTagThatParses ==
  fres.mode = "text" /\ ~HasMarker(fres.line) =>
    fres.crit = FirstParsingTag(fres.line)

\* C27 (amended): only the leftmost tag of each form is examined: the
\* criticality is the level of the leftmost bracketed tag if that parses,
\* else of the leftmost inline tag if that parses, else SheddablePlus.
C27_LeftmostTagOfEachForm ==
  fres.mode = "text" /\ ~HasMarker(fres.line) =>
    fres.crit = LeftmostTagOfEachForm(fres.line)

\* an unparseable bracketed tag falls through to an inline tag in capitals
C27_Witness ==
  /\ fres.mode = "text"
  /\ fres.line = <<Bracket("bogus"), Inline("CRITICALPLUS")>>
  /\ fres.crit = CriticalPlus

\* the fields that carry a structured record's time stamp
TimestampKeys == {"timestamp", "ts"}

\* C28: a record that is not shed is left unchanged; a shed text record
\* becomes the sentinel "(shedded)"; a shed structured record becomes a
\* mapping of exactly its original timestamp field and the shed flag set to
\* true.
C28_FilterEffect ==
  /\ fres.mode # "none" /\ ~fres.shed =>
       fres.out = fres.line /\ fres.outrec = fres.rec
  /\ fres.mode = "text" /\ fres.shed => fres.out = Shedded
  /\ fres.mode = "json" /\ fres.shed =>
       /\ DOMAIN fres.outrec = (TimestampKeys \cap DOMAIN fres.rec) \cup {"shedded"}
       /\ fres.outrec["shedded"] = "true"
       /\ \A k \in TimestampKeys \cap DOMAIN fres.rec : fres.outrec[k] = fres.rec[k]

\* the same with "ts" as the only timestamp field
C28_FilterEffectTS ==
  /\ fres.mode # "none" /\ ~fres.shed =>
       fres.out = fres.line /\ fres.outrec = fres.rec
  /\ fres.mode = "text" /\ fres.shed => fres.out = Shedded
  /\ fres.mode = "json" /\ fres.shed =>
       /\ DOMAIN fres.outrec = ({"ts"} \cap DOMAIN fres.rec) \cup {"shedded"}
       /\ fres.outrec["shedded"] = "true"
       /\ \A k \in {"ts"} \cap DOMAIN fres.rec : fres.outrec[k] = fres.rec[k]

\* ------------------------------------------------------------- format

\* the filters of a list that are not nil, in list order
NonNil(fs) == SelectSeq(fs, LAMBDA f : f # "nil")

\* the last filter applied to the result of the filters before it
RECURSIVE InOrder(_, _)
InOrder(fs, s) ==
  IF fs = <<>> THEN s
  ELSE FilterLineOf(fs[Len(fs)], InOrder(SubSeq(fs, 1, Len(fs) - 1), s))

RECURSIVE InOrderJSON(_, _)
InOrderJSON(fs, rec) ==
  IF fs = <<>> THEN rec
  ELSE FilterJSONOf(fs[Len(fs)], InOrderJSON(SubSeq(fs, 1, Len(fs) - 1), rec))

\* the state of the failure handling after a record: written, or the
\* failure counted by handleError
HandledAsText ==
  /\ logged'.outcome \in {"written", "reopen_file", "write_to_log"}
  /\ logged'.outcome = "written" => ~broken' /\ file' # NilFile /\ count' = count
  /\ logged'.outcome = "reopen_file" => file = NilFile /\ file' = NilFile
  /\ logged'.outcome = "write_to_log" => file' # NilFile
  /\ logged'.outcome # "written" =>
       broken' /\ count' = (IF broken THEN count ELSE 0) + 1

\* C29: in JSON mode a line that does not decode takes the text path, once:
\* the text filters are applied and the result plus '\n' is what is written
\* (the line itself plus '\n' when there is no filter); the JSON filters and
\* the encoder are not applied, and opening and writing fail as for any
\* text record.
C29_UndecodableGoesToText ==
  /\ [](JSON /\ logged.path # "none" /\ logged.line \in Texts =>
          /\ logged.path = "text"
          /\ logged.rec = NoRecord
          /\ logged.data = InOrder(NonNil(Filters), logged.line) \o <<NL>>
          /\ NonNil(Filters) = <<>> => logged.data = logged.line \o <<NL>>)
  /\ [][JSON /\ linec # <<>> /\ Head(linec) \in Texts /\ received' # received =>
          /\ received' = Append(received, Head(linec))
          /\ logged'.n = Len(received')
          /\ logged'.line = Head(linec)
          /\ logged'.path = "text"
          /\ HandledAsText]_vars

\* in JSON mode the plain line "ei" is written with the time prefix
C29_Witness ==
  /\ JSON
  /\ Filters = <<"timePrefix">>
  /\ logged.line = <<"e", "i">>
  /\ logged.path = "text"
  /\ logged.outcome = "written"
  /\ logged.data = <<"[", "e", "]", " ", "e", "i", NL>>

C31_NaturalEnd ==
  tail = "EOF" =>
     /\ errc = <<>> /\ ppc # "fin"
     /\ loop # "panicked"
     /\ IsPrefix(received \o linec, SplitLines(out))
     /\ linecClosed =>
          /\ ppc = "done" /\ bbuf = <<>> /\ acc = <<>>
          /\ received \o linec = SplitLines(out)
     /\ loop = "stopped" =>
          /\ linecClosed /\ linec = <<>>
          /\ received = SplitLines(out)
          /\ handoffs = 0 => received = SplitLines(input)

\* "a\n" read to its end and written while a terminate and a rotate signal
\* were processed
C31_Witness ==
  /\ tail = "EOF"
  /\ input = <<"a", NL>>
  /\ loop = "stopped"
  /\ received = <<<<"a">>>>
  /\ termsDone >= 1
  /\ reopenSent = 1 /\ sigReopen = 0

\* ------------------------------------------------------------- austerity

\* C32: under fair scheduling every read of SystemAusterityLevel receives a
\* value (all MaxReads reads complete and no handoff of the loader stays
\* pending), whether or not loads succeed; while reads are outstanding a
\* value is buffered or the service can send one; and the service can
\* always take a level the loader hands over, also while the buffer of
\* SystemAusterityLevel is full.
C32_ReadsNeverStarve ==
  /\ <>[](Len(reads) = MaxReads /\ loader.pc = "tick")
  /\ [](loader.pc = "send" => ENABLED ApplyLevel)
  /\ [](Len(reads) < MaxReads => levelCh # <<>> \/ ENABLED ServeLevel)

\* all reads served although a load failed, and a level taken over while
\* older values were still buffered
C32_Witness ==
  /\ Len(reads) = MaxReads
  /\ \E i \in 1..Len(loads) : loads[i].err
  /\ applied # <<>>
  /\ \E k \in 1..Len(reads) : reads[k].ver < reads[k].napplied

\* ------------------------------------------------------------- ordering
\* the records that reached the output, by their position in the input
WrittenRecs ==
  LET w == SelectSeq(events, LAMBDA e : e.kind = "write")
  IN [i \in 1..Len(w) |-> w[i].rec]
NoFailureYet == \A i \in 1..Len(events) : events[i].kind # "fail"

BlockedOnLine == ppc = "got" /\ SendsLine(ps) /\ Len(linec) = bufsize

C37_QueueState ==
  /\ Len(linec) <= bufsize
  /\ Len(errc) <= 1
  /\ ppc = "fin" => errc = <<>>
  /\ errc # <<>> => ppc \in {"close", "done"} /\ perr \notin {"nil", "EOF"}
  /\ linecClosed <=> ppc = "done"
  /\ BlockedOnLine => ~ENABLED SendLine

C37_QueueStep ==
  /\ \/ linec' = linec
     \/ linec # <<>> /\ linec' = Tail(linec)
     \/ /\ linec' = Append(linec, TrimRight(ps))
        /\ ppc = "got" /\ ~linecClosed /\ Len(linec) < bufsize
  /\ BlockedOnLine => ppc' = ppc /\ ps' = ps
  /\ errc' # errc => errc = <<>> /\ errc' = <<perr>> /\ ppc = "fin" /\ ~linecClosed
  /\ linecClosed' # linecClosed => ~linecClosed /\ ppc = "close"
  /\ linecClosed => linecClosed' /\ ppc' = "done"

\* C37: the record queue never holds more than its capacity; a producer
\* that finds it full stays parked on the same record, and the queue only
\* changes by an append at the tail or a removal at the head; the error
\* channel receives at most one value, at a moment when it is empty; the
\* queue is closed once, after the last record send and after the error
\* send, and nothing is sent once it is closed.
C37_QueueProtocol == [](C37_QueueState) /\ [][C37_QueueStep]_vars

\* the producer is parked on a full queue of two records
C37_Witness == BlockedOnLine /\ bufsize = 2 /\ Len(linec) = 2 /\ received # <<>>
\* the queue was closed after an error was sent
C37_WitnessClosed ==
  /\ linecClosed /\ errc = <<"EIO">>
  /\ bufsize = 2 /\ Len(received) + Len(linec) >= 2

\* ------------------------------------------------------------- level order
\* the levels of the successful loads, in the order of the loads
LoadedLevels ==
  LET ok == SelectSeq(loads, LoadOk)
  IN [i \in 1..Len(ok) |-> ok[i].l]

C40_InOrder ==
  /\ IsPrefix(applied, LoadedLevels)
  /\ Len(LoadedLevels) - Len(applied) = (IF loader.pc = "send" THEN 1 ELSE 0)
  /\ currentLevel = LevelAt(Len(applied))
  /\ \A i \in 1..Len(reads) :
       /\ reads[i].v = LevelAt(reads[i].ver)
       /\ \A j \in 1..Len(reads) : i < j => reads[i].ver <= reads[j].ver
  /\ \A i \in 1..Len(levelCh) :
       /\ levelCh[i].v = LevelAt(levelCh[i].ver)
       /\ \A j \in 1..Len(levelCh) : i < j => levelCh[i].ver <= levelCh[j].ver
       /\ \A j \in 1..Len(reads) : reads[j].ver <= levelCh[i].ver

\* C40: the levels become the cached level in the order of the successful
\* loads, one handoff at a time; the values received from
\* SystemAusterityLevel follow that order (once a read has returned the
\* level of a later load, no later read returns the level of an earlier
\* one); and under fair scheduling every successfully loaded level ends up
\* having been the cached level.
C40_LevelsInOrder == [](C40_InOrder) /\ <>[](applied = LoadedLevels)

\* two levels were loaded and applied, and the reads returned the initial
\* level, then the first, then the second
C40_Witness ==
  /\ Len(applied) = 2 /\ applied[1] # applied[2]
  /\ \E i, j, k \in 1..Len(reads) :
       /\ i < j /\ j < k
       /\ reads[i].ver = 0 /\ reads[j].ver = 1 /\ reads[k].ver = 2

\* ------------------------------------------------------------- terminate
\* C38: once the event loop has processed the terminate signals it was
\* sent, force-quit is armed and the shutdown listener has taken the
\* handoff, so that it goes on to set the reader draining: no terminate
\* signal is lost because the listener was not yet waiting on the shutdown
\* trigger. (Force-quit is armed and the handoff made only in the step that
\* processes a terminate signal, so with no signal left to process what has
\* not happened by then never happens.)
C38_TermNeverLost ==
  (termsDone > 0 /\ sigTerm = 0) =>
     /\ shouldShutdown
     /\ handoffs > 0
     /\ lpc \in {"got", "done"}

\* ------------------------------------------------------------- draining
\* C39: once the reader's shutdown flag is set, on an input that keeps
\* producing data with newline bytes in it, the reader eventually reports
\* end-of-stream, readlines closes the queue and the event loop stops,
\* whatever the number of bytes each read of the input returns.
C39_DrainEnds ==
  shuttingDown ~> (wrapperEOF /\ linecClosed /\ loop = "stopped")

\* the same for the reader that reads one byte at a time when draining
C39_DrainEndsOneByte ==
  (shuttingDown /\ impl = "UnilogReader") ~> (wrapperEOF /\ linecClosed /\ loop = "stopped")

\* ------------------------------------------------------------- encoder
\* C35: in JSON mode, whenever the output handle is non-nil the JSON encoder
\* is non-nil and writes to that handle, for every target, "-" included,
\* and logJSON never encodes through a missing encoder.
C35_EncoderBound ==
  /\ (JSON /\ file # NilFile) => jsonEncoder = file
  /\ loop # "panicked"

\* the same for a target that is a path
C35_EncoderBoundOnPath ==
  (JSON /\ target # "-") =>
     /\ file # NilFile => jsonEncoder = file
     /\ loop # "panicked"

\* ------------------------------------------------------------- tag table
\* the expansion of a metric name: one pair per configured tag whose prefix
\* (the part before the first ':') is not empty, in configured order
KeptTags == SelectSeq(Tags, LAMBDA t : t # <<>> /\ t[1] # ":")
Expansion(name) ==
  [i \in 1..Len(KeptTags) |->
     [t |-> KeptTags[i], n |-> <<name, ".">> \o TagPrefix(KeptTags[i])]]

\* the goroutines inside the locked part of GetTags
InTable == {c \in 1..MaxCallers : getters[c].pc \in {"lookup", "insert", "unlock"}}

C33_TableState ==
  /\ Cardinality(InTable) <= 1
  /\ \A c \in InTable : tagLock = c
  /\ \A n \in MetricNames :
       inserted[n] = (IF n \in DOMAIN metricsTable THEN 1 ELSE 0)
  /\ \A n \in DOMAIN metricsTable : metricsTable[n] = Expansion(n)
  /\ \A r \in returned :
       r.tags = (IF tagsNil THEN <<>> ELSE Expansion(r.name))
  /\ tagsNil => metricsTable = <<>> /\ tagLock = 0

C33_TableStep ==
  \A n \in DOMAIN metricsTable :
    n \in DOMAIN metricsTable' /\ metricsTable'[n] = metricsTable[n]

\* C33: under every interleaving of concurrent GetTags calls the entry of
\* a metric name is inserted once and never modified or removed afterwards;
\* every call for a name returns the same expansion (one pair name.prefix
\* per configured tag, in configured order, the tags with an empty prefix
\* skipped); a nil tag state returns an empty expansion and touches nothing.
C33_TagTable == [](C33_TableState) /\ [][C33_TableStep]_vars

\* one goroutine is about to return the expansion it found in the table
\* (one pair, the tag with the empty prefix skipped), which an earlier call
\* inserted and returned, while another waits for the lock for the same name
C33_Witness ==
  /\ Tags = <<<<":", "v">>, <<"k", ":", "v">>>>
  /\ \E c, d \in 1..MaxCallers :
       /\ getters[c].pc = "unlock" /\ getters[d].pc = "lock"
       /\ getters[c].name = "m" /\ getters[d].name = "m"
       /\ getters[c].tags = <<[t |-> <<"k", ":", "v">>, n |-> <<"m", ".", "k">>]>>
       /\ [name |-> "m", tags |-> getters[c].tags] \in returned
\* a nil tag state returned the empty expansion
C33_WitnessNil ==
  tagsNil /\ Tags # <<>> /\ [name |-> "m", tags |-> <<>>] \in returned

\* ------------------------------------------------------------- flag lock
\* C34: the reader's shutdown flag is only read or written by a goroutine
\* that holds the reader's lock, so the listener's store and the load of
\* an in-flight Read never overlap.
C34_FlagUnderLock ==
  /\ "listener" \in touching => mtx = "listener"
  /\ "reader" \in touching => mtx = "reader"

\* the same for Reader alone
C34_FlagUnderLockReader == impl = "Reader" => C34_FlagUnderLock

\* Reader: the listener holds the lock in the middle of its store while a
\* Read waits for the lock
C34_WitnessReader ==
  /\ impl = "Reader" /\ touching = {"listener"} /\ rpc = "check"

============================================================================
